---- MODULE Spec2Model ----
(***************************************************************************)
(* CalendarTool (langchain_community/tools/calender.py) as a state machine.*)
(*                                                                         *)
(* Two tool objects are driven side by side with the same requests: `mem`  *)
(* is CalendarTool(storage_path=None) and `sql` is CalendarTool with a     *)
(* SQLite file.  Every action is one call of CalendarTool._run on both.    *)
(* SpecArun runs two calls of one tool in the worker threads of _arun;     *)
(* SpecTrig and SpecHub are TrigonometryTool._run (tools/trigonometry.py)  *)
(* and HuggingFaceHubTool._run (tools/huggingface.py).                     *)
(*                                                                         *)
(* Python values are tagged records [t |-> type name, v |-> payload]; the  *)
(* tag fixes the shape of the payload.  A text that holds a JSON document  *)
(* is the tag "json" with the decoded document as payload (json.loads and  *)
(* json.dumps are the two directions of that encoding).  Time is counted   *)
(* in whole hours from an arbitrary base date; a date/time text is         *)
(* "T<hour>" followed by nothing (naive), "Z" or "+01:00".                 *)
(***************************************************************************)
EXTENDS Integers, Sequences, FiniteSets, TLC

VARIABLES mem, sql, req, respMem, respSql, issued, calls, updates, idle, created, deleted, touched, ledger

\* CalendarTool objects shared by the worker threads of _arun.
VARIABLES base, shared, threads

\* TrigonometryTool: the last query and its response.
VARIABLES trigQuery, trigResp

\* HuggingFaceHubTool: the tool object, the last query, what its client did
\* with the search, the calls the client received during that _run and the
\* text returned.
VARIABLES hubTool, hubQuery, hubClient, hubCalls, hubResp

calendarVars ==
    <<mem, sql, req, respMem, respSql, issued, calls, updates, idle, created,
      deleted, touched, ledger>>

arunVars == <<base, shared, threads>>

trigVars == <<trigQuery, trigResp>>

hubVars == <<hubTool, hubQuery, hubClient, hubCalls, hubResp>>

vars == <<calendarVars, arunVars, trigVars, hubVars>>

\* ------------------------------------------------------------- bounds

\* Number of create/update/delete calls explored in one behaviour.
MaxMutations == 3

\* Number of those calls that are updates.
MaxUpdates == 1

\* Number of results the Hub client returns for one search.
MaxResults == 3

\* ------------------------------------------------------ Python values

None == [t |-> "NoneType", v |-> ""]

PyStr(s) == [t |-> "str", v |-> s]

PyInt(n) == [t |-> "int", v |-> n]

PyDict(f) == [t |-> "dict", v |-> f]

PyList(s) == [t |-> "list", v |-> s]

\* datetime(wall) with tzinfo None (aware = FALSE) or a fixed offset.
PyDatetime(wall, aware, off) ==
    [t |-> "datetime", v |-> [wall |-> wall, aware |-> aware, off |-> off]]

\* A str holding the JSON document of value d.
JsonText(d) == [t |-> "json", v |-> d]

isinstance_str(x) == x.t \in {"str", "json"}

isinstance_dict(x) == x.t = "dict"

isinstance_datetime(x) == x.t = "datetime"

\* bool(x): the truth value Python's `not x`, `x or y`, `if x` use.
Truthy(x) ==
    CASE x.t = "NoneType" -> FALSE
      [] x.t = "str"      -> x.v # ""
      [] x.t = "int"      -> x.v # 0
      [] x.t = "dict"     -> DOMAIN x.v # {}
      [] x.t = "list"     -> Len(x.v) # 0
      [] OTHER            -> TRUE

\* d.get(k, default) and `k in d` on a dict payload.
DictGet(d, k, default) == IF k \in DOMAIN d THEN d[k] ELSE default

\* str(x) / f"{x}" for the values that reach a message.
PyFormat(x) ==
    CASE x.t = "str"      -> x.v
      [] x.t = "int"      -> ToString(x.v)
      [] x.t = "NoneType" -> "None"
      [] OTHER            -> "<" \o x.t \o ">"

\* Whether json.dumps accepts the value (it raises TypeError otherwise).
RECURSIVE JsonSerializable(_)
JsonSerializable(x) ==
    CASE x.t \in {"NoneType", "str", "json", "int", "float"} -> TRUE
      [] x.t = "dict" -> \A k \in DOMAIN x.v : JsonSerializable(x.v[k])
      [] x.t = "list" -> \A i \in DOMAIN x.v : JsonSerializable(x.v[i])
      [] OTHER        -> FALSE

\* json.dumps(x): the text of the document, or TypeError.
json_dumps(x) ==
    IF JsonSerializable(x)
    THEN [exc |-> "", msg |-> "", val |-> JsonText(x)]
    ELSE [exc |-> "TypeError",
          msg |-> "Object of type " \o x.t \o " is not JSON serializable",
          val |-> None]

\* json.loads(s): the document of the text, or JSONDecodeError.
json_loads(s) ==
    IF s.t = "json"
    THEN [exc |-> "", msg |-> "", val |-> s.v]
    ELSE [exc |-> "JSONDecodeError",
          msg |-> "Expecting value: line 1 column 1 (char 0)",
          val |-> None]

\* except ValueError: the exception classes that derive from ValueError.
IsValueError(exc) == exc \in {"ValueError", "JSONDecodeError", "ParserError"}

\* ------------------------------------------------------ dates and zones

Walls == -1 .. 3

Suffixes == {"", "Z", "+01:00"}

SuffixOffset(sfx) == IF sfx = "+01:00" THEN 1 ELSE 0

TimeText(w, sfx) == "T" \o ToString(w) \o sfx

TimeTexts == { TimeText(w, sfx) : w \in Walls, sfx \in Suffixes }

\* The reading of each date/time text: its hour and its zone suffix.
TimeReading ==
    [s \in TimeTexts |-> CHOOSE p \in Walls \X Suffixes : s = TimeText(p[1], p[2])]

\* The datetime of a reading <<hour, suffix>>.
ReadingDatetime(p) ==
    [wall |-> p[1], aware |-> p[2] # "", off |-> SuffixOffset(p[2])]

\* The datetime slot of an outcome that carries an exception.
NoDatetime == [wall |-> 0, aware |-> FALSE, off |-> 0]

\* dateutil_parser.parse / isoparse: the datetime a text denotes, naive when
\* the text names no zone; ParserError for any other text.
dateutil_parse(s) ==
    IF s \in TimeTexts
    THEN [exc |-> "", msg |-> "", dt |-> ReadingDatetime(TimeReading[s])]
    ELSE [exc |-> "ParserError", msg |-> "Unknown string format: " \o s,
          dt |-> NoDatetime]

\* ZoneInfo(key): the zones the model knows, with their UTC offset in hours.
ZoneNames == {"UTC", "Africa/Lagos"}

ZoneOffset(name) == IF name = "Africa/Lagos" THEN 1 ELSE 0

\* dt.astimezone(timezone.utc) of an aware datetime.
astimezone_utc(dt) == [wall |-> dt.wall - dt.off, aware |-> TRUE, off |-> 0]

\* dt.replace(tzinfo=timezone.utc) when dt.tzinfo is None (lines 19-20).
ReplaceNaiveUtc(dt) ==
    IF ~dt.aware THEN [dt EXCEPT !.aware = TRUE, !.off = 0] ELSE dt

\* _isoformat: dt_utc.isoformat().replace("+00:00", "Z").
_isoformat(dt) == TimeText(astimezone_utc(ReplaceNaiveUtc(dt)).wall, "Z")

\* _ensure_tz attaching UTC whatever zone is named.
_ensure_tzUtcOnly(dt, tz) ==
    IF ~dt.aware THEN [dt EXCEPT !.aware = TRUE, !.off = 0] ELSE dt

\* _ensure_tz: attach tz to a naive datetime; UTC when tz is empty or unknown.
_ensure_tz(dt, tz) ==
    IF ~dt.aware
    THEN IF Truthy(tz)
         THEN IF tz.t = "str" /\ tz.v \in ZoneNames
              THEN [dt EXCEPT !.aware = TRUE, !.off = ZoneOffset(tz.v)]
              ELSE [dt EXCEPT !.aware = TRUE, !.off = 0]
         ELSE [dt EXCEPT !.aware = TRUE, !.off = 0]
    ELSE dt

\* ------------------------------------------------- the tool's storage

\* CalendarTool.__init__: the object after construction.  _in_memory is the
\* dict's values in insertion order (each value's "id" is its key); rows is
\* the SQLite table `events` in rowid order.
CalendarTool(storage_path, default_timezone) ==
    [default_timezone |-> default_timezone,
     _use_sqlite      |-> storage_path # None,
     _in_memory       |-> <<>>,
     rows             |-> <<>>]

HasId(seq, id) == \E i \in DOMAIN seq : seq[i].id = id

IndexOfId(seq, id) == CHOOSE i \in DOMAIN seq : seq[i].id = id

\* A removal that drops the oldest entry whichever one is named.
RemoveOldest(seq, i) == Tail(seq)

RemoveAt(seq, i) == SubSeq(seq, 1, i - 1) \o SubSeq(seq, i + 1, Len(seq))

\* d[key] = value on the insertion-ordered dict: a known key keeps its place.
DictSet(seq, id, value) ==
    IF HasId(seq, id)
    THEN [seq EXCEPT ![IndexOfId(seq, id)] = value]
    ELSE Append(seq, value)

\* sqlite3 binds None, int and str parameters and refuses other objects.
SqlBindable(x) == x.t \in {"NoneType", "str", "json", "int"}

\* A TEXT column stores a bound integer as its decimal text.
SqlText(x) == IF x.t = "int" THEN PyStr(ToString(x.v)) ELSE x

EventColumns == <<"id", "title", "description", "start", "end", "timezone">>

\* The parameter tuple of INSERT and UPDATE, given the outcome md of
\* json.dumps(evt.get("metadata", {})).
PersistRow(evt, md) ==
    [exc |-> md.exc, msg |-> md.msg,
     row |-> [id          |-> SqlText(evt["id"]),
              title       |-> SqlText(DictGet(evt, "title", None)),
              description |-> SqlText(DictGet(evt, "description", None)),
              start       |-> SqlText(DictGet(evt, "start", None)),
              end         |-> SqlText(DictGet(evt, "end", None)),
              timezone    |-> SqlText(DictGet(evt, "timezone", None)),
              metadata    |-> md.val],
     bindable |-> \A i \in DOMAIN EventColumns :
                     SqlBindable(DictGet(evt, EventColumns[i], None))]

PersistParams(evt) ==
    PersistRow(evt, json_dumps(DictGet(evt, "metadata", PyDict(<<>>))))

\* conn.execute("INSERT ...", p.row) and commit; `failing` is the backend
\* refusing the statement.
ExecuteInsert(self, p, failing) ==
    CASE p.exc # "" ->
           [exc |-> p.exc, msg |-> p.msg, self |-> self]
      [] p.exc = "" /\ ~p.bindable ->
           [exc |-> "InterfaceError",
            msg |-> "Error binding parameter - probably unsupported type.",
            self |-> self]
      [] p.exc = "" /\ p.bindable /\ failing ->
           [exc |-> "OperationalError", msg |-> "disk I/O error", self |-> self]
      [] p.exc = "" /\ p.bindable /\ ~failing /\ HasId(self.rows, p.row.id) ->
           [exc |-> "IntegrityError",
            msg |-> "UNIQUE constraint failed: events.id", self |-> self]
      [] OTHER ->
           [exc |-> "", msg |-> "",
            self |-> [self EXCEPT !.rows = Append(@, p.row)]]

\* _persist_insert.
_persist_insert(self, evt, failing) ==
    ExecuteInsert(self, PersistParams(evt), failing)

\* conn.execute("UPDATE ... WHERE id=?", p.row) and commit; no row matches an
\* unknown id.
ExecuteUpdate(self, p, failing) ==
    CASE p.exc # "" ->
           [exc |-> p.exc, msg |-> p.msg, self |-> self]
      [] p.exc = "" /\ ~p.bindable ->
           [exc |-> "InterfaceError",
            msg |-> "Error binding parameter - probably unsupported type.",
            self |-> self]
      [] p.exc = "" /\ p.bindable /\ failing ->
           [exc |-> "OperationalError", msg |-> "disk I/O error", self |-> self]
      [] OTHER ->
           [exc |-> "", msg |-> "",
            self |-> [self EXCEPT !.rows =
                        [i \in DOMAIN @ |->
                           IF @[i].id = p.row.id THEN p.row ELSE @[i]]]]

\* _persist_update.
_persist_update(self, evt, failing) ==
    ExecuteUpdate(self, PersistParams(evt), failing)

\* _persist_delete: DELETE FROM events WHERE id=?.
_persist_delete(self, event_id, failing) ==
    CASE ~SqlBindable(event_id) ->
           [exc |-> "InterfaceError",
            msg |-> "Error binding parameter - probably unsupported type.",
            self |-> self]
      [] SqlBindable(event_id) /\ failing ->
           [exc |-> "OperationalError", msg |-> "disk I/O error", self |-> self]
      [] OTHER ->
           [exc |-> "", msg |-> "",
            self |-> [self EXCEPT !.rows =
                        IF HasId(@, SqlText(event_id))
                        THEN RemoveAt(@, IndexOfId(@, SqlText(event_id)))
                        ELSE @]]

\* The dict _persist_list_all and _persist_get build from a row:
\* "metadata": json.loads(r[6]) if r[6] else {}.
RowToEvent(r) ==
    [id          |-> r.id,
     title       |-> r.title,
     description |-> r.description,
     start       |-> r.start,
     end         |-> r.end,
     timezone    |-> r.timezone,
     metadata    |-> IF Truthy(r.metadata)
                     THEN json_loads(r.metadata).val
                     ELSE PyDict(<<>>)]

\* _persist_list_all: SELECT ... FROM events.
_persist_list_all(self, failing) ==
    IF failing
    THEN [exc |-> "OperationalError", msg |-> "disk I/O error", out |-> <<>>]
    ELSE [exc |-> "", msg |-> "",
          out |-> [i \in DOMAIN self.rows |-> RowToEvent(self.rows[i])]]

\* _persist_get: the row's dict, or None (found = FALSE).
_persist_get(self, event_id, failing) ==
    CASE ~SqlBindable(event_id) ->
           [exc |-> "InterfaceError",
            msg |-> "Error binding parameter - probably unsupported type.",
            found |-> FALSE, item |-> <<>>]
      [] SqlBindable(event_id) /\ failing ->
           [exc |-> "OperationalError", msg |-> "disk I/O error",
            found |-> FALSE, item |-> <<>>]
      [] SqlBindable(event_id) /\ ~failing /\ HasId(self.rows, SqlText(event_id)) ->
           [exc |-> "", msg |-> "", found |-> TRUE,
            item |-> RowToEvent(self.rows[IndexOfId(self.rows, SqlText(event_id))])]
      [] OTHER ->
           [exc |-> "", msg |-> "", found |-> FALSE, item |-> <<>>]

\* --------------------------------------------- parsing and normalization

\* The characters of a str (a JSON document's text is never a date).
StrText(x) == IF x.t = "str" THEN x.v ELSE "<json>"

\* Lines 204-209: attach the zone to a naive datetime and convert to UTC.
ToUtc(self, dt, tz) ==
    [exc |-> "", msg |-> "",
     dt  |-> astimezone_utc(
               _ensure_tz(dt, IF Truthy(tz) THEN tz
                              ELSE PyStr(self.default_timezone)))]

\* Lines 196-200, given the outcome p of dateutil_parser.parse(value).
ParsedText(self, value, tz, p) ==
    IF p.exc # ""
    THEN [exc |-> "ValueError",
          msg |-> "Unable to parse datetime string: " \o StrText(value)
                  \o "; error: " \o p.msg,
          dt  |-> NoDatetime]
    ELSE ToUtc(self, p.dt, tz)

\* _parse_datetime: value (text or datetime) to an aware UTC datetime.
_parse_datetime(self, value, tz) ==
    CASE isinstance_datetime(value) -> ToUtc(self, value.v, tz)
      [] isinstance_str(value) ->
           ParsedText(self, value, tz, dateutil_parse(StrText(value)))
      [] OTHER ->
           [exc |-> "ValueError", msg |-> "start/end must be a datetime or string",
            dt  |-> NoDatetime]

\* str.lower() on the action names the model sends.
Lower(s) ==
    CASE s = "CREATE"  -> "create"
      [] s = "List"    -> "list"
      [] s = "SIN"     -> "sin"
      [] s = "Asin"    -> "asin"
      [] s = "Degrees" -> "degrees"
      [] OTHER         -> s

Digits == 0 .. 9

IsDecimal(s) == \E n \in Digits : ToString(n) = s

\* int(x): an int is kept, a decimal text is read, other text is a ValueError
\* and any other object a TypeError.
int(x) ==
    CASE x.t = "int" -> [exc |-> "", msg |-> "", val |-> x]
      [] x.t = "str" /\ IsDecimal(x.v) ->
           [exc |-> "", msg |-> "",
            val |-> PyInt(CHOOSE n \in Digits : ToString(n) = x.v)]
      [] x.t \in {"str", "json"} /\ ~IsDecimal(StrText(x)) ->
           [exc |-> "ValueError",
            msg |-> "invalid literal for int() with base 10: '" \o StrText(x) \o "'",
            val |-> None]
      [] OTHER ->
           [exc |-> "TypeError",
            msg |-> "int() argument must be a string, a bytes-like object or a real number, not '"
                    \o x.t \o "'",
            val |-> None]

\* The keys of `out` (lines 227-244): action, the forwarded id, limit, start
\* and end, and event when it is a dict.
ForwardedKeys(d) ==
    {"action"}
    \cup ({"id", "limit", "start", "end"} \cap DOMAIN d)
    \cup (IF "event" \in DOMAIN d /\ isinstance_dict(d["event"])
          THEN {"event"} ELSE {})

\* Lines 224-246, given action = parsed.get("action") and the outcome limit of
\* int(parsed["limit"]).
Forwarded(d, action, limit) ==
    CASE ~Truthy(action) \/ ~isinstance_str(action) ->
           [exc |-> "ValueError", msg |-> "Missing or invalid 'action' field.",
            out |-> <<>>]
      [] Truthy(action) /\ isinstance_str(action)
         /\ "limit" \in DOMAIN d /\ limit.exc # "" ->
           [exc |-> limit.exc, msg |-> limit.msg, out |-> <<>>]
      [] OTHER ->
           [exc |-> "", msg |-> "",
            out |-> [k \in ForwardedKeys(d) |->
                       CASE k = "action" -> PyStr(Lower(StrText(action)))
                         [] k = "limit"  -> limit.val
                         [] OTHER        -> d[k]]]

\* Lines 223-246 on the parsed document; parsed.get needs a dict.
NormalizeParsed(parsed) ==
    IF ~isinstance_dict(parsed)
    THEN [exc |-> "AttributeError",
          msg |-> "'" \o parsed.t \o "' object has no attribute 'get'",
          out |-> <<>>]
    ELSE Forwarded(parsed.v, DictGet(parsed.v, "action", None),
                   int(DictGet(parsed.v, "limit", None)))

\* Lines 214-217, given the outcome loaded of json.loads(q).
NormalizeLoaded(loaded) ==
    IF loaded.exc # ""
    THEN [exc |-> "ValueError", msg |-> "Invalid JSON input: " \o loaded.msg,
          out |-> <<>>]
    ELSE NormalizeParsed(loaded.val)

\* _normalize_input: the request descriptor of a JSON text or a dict.
_normalize_input(q) ==
    CASE isinstance_str(q)  -> NormalizeLoaded(json_loads(q))
      [] isinstance_dict(q) -> NormalizeParsed(q)
      [] OTHER ->
           [exc |-> "ValueError", msg |-> "Input must be JSON string or dict.",
            out |-> <<>>]

\* ------------------------------------------------------ event operations

\* The events a tool holds, as its list operation reads them.
Held(self) ==
    IF self._use_sqlite
    THEN [i \in DOMAIN self.rows |-> RowToEvent(self.rows[i])]
    ELSE self._in_memory

\* dict lookups hash the key: a dict or list key raises TypeError.
Hashable(x) == x.t \notin {"dict", "list"}

\* EventZone ignoring the event's own zone.
EventZoneDefaultOnly(self, evt) == PyStr(self.default_timezone)

\* tz = evt.get("timezone") or self.default_timezone (line 251).
EventZone(self, evt) ==
    IF Truthy(DictGet(evt, "timezone", None))
    THEN evt["timezone"]
    ELSE PyStr(self.default_timezone)

\* The dict `stored` of lines 257-265.
Stored(evt, event_id, tz, start_dt, end) ==
    [id          |-> PyStr(event_id),
     title       |-> DictGet(evt, "title", None),
     description |-> DictGet(evt, "description", None),
     start       |-> PyStr(_isoformat(start_dt)),
     end         |-> end,
     timezone    |-> tz,
     metadata    |-> DictGet(evt, "metadata", PyDict(<<>>))]

\* Line 268, given the outcome ins of _persist_insert(stored).
Inserted(stored, ins) ==
    [exc |-> ins.exc, msg |-> ins.msg, self |-> ins.self, stored |-> stored]

\* Lines 267-271: write `stored` to the active backend and return it.
StoreEvent(self, stored, failing) ==
    IF self._use_sqlite
    THEN Inserted(stored, _persist_insert(self, stored, failing))
    ELSE [exc |-> "", msg |-> "",
          self |-> [self EXCEPT !._in_memory = DictSet(@, stored.id, stored)],
          stored |-> stored]

\* Lines 255-271, given the outcome end of _parse_datetime(evt["end"], tz).
CreateWithEnd(self, evt, event_id, failing, start_dt, end) ==
    IF end.exc # ""
    THEN [exc |-> end.exc, msg |-> end.msg, self |-> self, stored |-> <<>>]
    ELSE StoreEvent(self,
                    Stored(evt, event_id, EventZone(self, evt), start_dt,
                           PyStr(_isoformat(end.dt))),
                    failing)

\* Lines 252-271, given the outcome start of _parse_datetime(evt["start"], tz).
CreateWithStart(self, evt, event_id, failing, start) ==
    CASE start.exc # "" ->
           [exc |-> start.exc, msg |-> start.msg, self |-> self, stored |-> <<>>]
      [] start.exc = "" /\ "end" \in DOMAIN evt /\ evt["end"] # None ->
           CreateWithEnd(self, evt, event_id, failing, start.dt,
                         _parse_datetime(self, evt["end"], EventZone(self, evt)))
      [] OTHER ->
           StoreEvent(self,
                      Stored(evt, event_id, EventZone(self, evt), start.dt, None),
                      failing)

\* _create_event_in_memory, with event_id the text of the fresh uuid4();
\* evt["start"] of a mapping without start is a KeyError.
_create_event_in_memory(self, evt, event_id, failing) ==
    IF "start" \notin DOMAIN evt
    THEN [exc |-> "KeyError", msg |-> "'start'", self |-> self, stored |-> <<>>]
    ELSE CreateWithStart(self, evt, event_id, failing,
                         _parse_datetime(self, evt["start"], EventZone(self, evt)))

\* _list_events_in_memory.
_list_events_in_memory(self, failing) ==
    IF self._use_sqlite
    THEN _persist_list_all(self, failing)
    ELSE [exc |-> "", msg |-> "", out |-> self._in_memory]

\* _get_event_in_memory: the dict held under event_id, or None (found = FALSE).
\* The in-memory variant returns the stored dict itself, the SQLite variant
\* a dict built from the row.
_get_event_in_memory(self, event_id, failing) ==
    IF self._use_sqlite
    THEN _persist_get(self, event_id, failing)
    ELSE CASE ~Hashable(event_id) ->
                [exc |-> "TypeError", msg |-> "unhashable type: '" \o event_id.t \o "'",
                 found |-> FALSE, item |-> <<>>]
           [] Hashable(event_id) /\ HasId(self._in_memory, event_id) ->
                [exc |-> "", msg |-> "", found |-> TRUE,
                 item |-> self._in_memory[IndexOfId(self._in_memory, event_id)]]
           [] OTHER ->
                [exc |-> "", msg |-> "", found |-> FALSE, item |-> <<>>]

\* Lines 287-288, given the outcome del of _persist_delete(event_id).
Deleted(del) ==
    [exc |-> del.exc, msg |-> del.msg, self |-> del.self, ok |-> del.exc = ""]

\* Lines 285-288, given the outcome got of _persist_get(event_id).
DeletePersisted(self, event_id, failing, got) ==
    CASE got.exc # "" ->
           [exc |-> got.exc, msg |-> got.msg, self |-> self, ok |-> FALSE]
      [] got.exc = "" /\ ~got.found ->
           [exc |-> "", msg |-> "", self |-> self, ok |-> FALSE]
      [] OTHER ->
           Deleted(_persist_delete(self, event_id, failing))

\* _delete_event_in_memory: ok is the bool it returns; fault numbers the
\* backend statement that fails (0: none).
_delete_event_in_memory(self, event_id, fault) ==
    IF self._use_sqlite
    THEN DeletePersisted(self, event_id, fault = 2,
                         _persist_get(self, event_id, fault = 1))
    ELSE CASE ~Hashable(event_id) ->
                [exc |-> "TypeError",
                 msg |-> "unhashable type: '" \o event_id.t \o "'",
                 self |-> self, ok |-> FALSE]
           [] Hashable(event_id) /\ HasId(self._in_memory, event_id) ->
                [exc |-> "", msg |-> "",
                 self |-> [self EXCEPT !._in_memory =
                             RemoveAt(@, IndexOfId(@, event_id))],
                 ok |-> TRUE]
           [] OTHER ->
                [exc |-> "", msg |-> "", self |-> self, ok |-> FALSE]

\* `existing` in _update_event_in_memory: the in-memory variant's is the stored
\* dict itself (line 281 returns it), so an assignment to existing[...] is an
\* assignment in the store; the SQLite variant's is a copy built from the row.
Aliased(self, event_id, existing) ==
    IF self._use_sqlite
    THEN self
    ELSE [self EXCEPT !._in_memory = DictSet(@, event_id, existing)]

\* UpdateZone ignoring the zone the event holds.
UpdateZoneDefault(self, changes, existing) ==
    DictGet(changes, "timezone", PyStr(self.default_timezone))

\* tz = changes.get("timezone", existing.get("timezone", default_timezone)).
UpdateZone(self, changes, existing) ==
    DictGet(changes, "timezone",
            DictGet(existing, "timezone", PyStr(self.default_timezone)))

\* Line 319, given the outcome upd of _persist_update(existing).
Persisted(existing, upd) ==
    [exc |-> upd.exc, msg |-> upd.msg, self |-> upd.self,
     found |-> TRUE, updated |-> existing]

\* Lines 318-322: write `existing` to the active backend and return it.
SaveExisting(self, event_id, failing, existing) ==
    IF self._use_sqlite
    THEN Persisted(existing, _persist_update(self, existing, failing))
    ELSE [exc |-> "", msg |-> "",
          self |-> Aliased(self, event_id, existing),
          found |-> TRUE, updated |-> existing]

\* MergePlain building the record anew from the changes: a field the changes
\* do not carry is lost instead of kept.
MergePlainReplacing(existing, changes) ==
    [k \in DOMAIN existing |->
       CASE k \in {"title", "description", "timezone", "metadata"}
            /\ k \in DOMAIN changes -> changes[k]
         [] k \in {"title", "description"} -> None
         [] OTHER -> existing[k]]

\* Lines 309-316: title, description, timezone and metadata are assigned when
\* the changes carry them.
MergePlain(existing, changes) ==
    [k \in DOMAIN existing |->
       IF k \in {"title", "description", "timezone", "metadata"}
          /\ k \in DOMAIN changes
       THEN changes[k]
       ELSE existing[k]]

\* Lines 309-322.
UpdateRest(self, event_id, changes, failing, existing) ==
    SaveExisting(self, event_id, failing, MergePlain(existing, changes))

\* Line 308, given the outcome pe of _parse_datetime(changes["end"], tz).  The
\* exception leaves the function with the assignments made so far in place.
UpdateEndParsed(self, event_id, changes, failing, existing, pe) ==
    IF pe.exc # ""
    THEN [exc |-> pe.exc, msg |-> pe.msg,
          self |-> Aliased(self, event_id, existing),
          found |-> TRUE, updated |-> <<>>]
    ELSE UpdateRest(self, event_id, changes, failing,
                    [existing EXCEPT !.end = PyStr(_isoformat(pe.dt))])

\* Lines 303-322.
UpdateEnd(self, event_id, changes, failing, existing) ==
    CASE "end" \notin DOMAIN changes ->
           UpdateRest(self, event_id, changes, failing, existing)
      [] "end" \in DOMAIN changes /\ changes["end"] = None ->
           UpdateRest(self, event_id, changes, failing,
                      [existing EXCEPT !.end = None])
      [] OTHER ->
           UpdateEndParsed(self, event_id, changes, failing, existing,
                           _parse_datetime(self, changes["end"],
                                           UpdateZone(self, changes, existing)))

\* UpdateStartParsed taking `start: null` as a value to store, the way line
\* 305 takes `end: null`.
UpdateStartParsedStoringNull(self, event_id, changes, failing, existing, ps) ==
    CASE ps.exc # "" /\ changes["start"] = None ->
           UpdateEnd(self, event_id, changes, failing,
                     [existing EXCEPT !.start = None])
      [] ps.exc # "" /\ changes["start"] # None ->
           [exc |-> "ValueError", msg |-> "Invalid start value: " \o ps.msg,
            self |-> self, found |-> TRUE, updated |-> <<>>]
      [] OTHER ->
           UpdateEnd(self, event_id, changes, failing,
                     [existing EXCEPT !.start = PyStr(_isoformat(ps.dt))])

\* Lines 298-302, given the outcome ps of _parse_datetime(changes["start"], tz):
\* any exception becomes ValueError("Invalid start value: ...").
UpdateStartParsed(self, event_id, changes, failing, existing, ps) ==
    IF ps.exc # ""
    THEN [exc |-> "ValueError", msg |-> "Invalid start value: " \o ps.msg,
          self |-> self, found |-> TRUE, updated |-> <<>>]
    ELSE UpdateEnd(self, event_id, changes, failing,
                   [existing EXCEPT !.start = PyStr(_isoformat(ps.dt))])

\* Lines 293-322, given the outcome got of _get_event_in_memory(event_id).
UpdateExisting(self, event_id, changes, failing, got) ==
    CASE got.exc # "" ->
           [exc |-> got.exc, msg |-> got.msg, self |-> self,
            found |-> FALSE, updated |-> <<>>]
      [] got.exc = "" /\ ~got.found ->
           [exc |-> "", msg |-> "", self |-> self,
            found |-> FALSE, updated |-> <<>>]
      [] got.exc = "" /\ got.found /\ "start" \in DOMAIN changes ->
           UpdateStartParsed(self, event_id, changes, failing, got.item,
                             _parse_datetime(self, changes["start"],
                                             UpdateZone(self, changes, got.item)))
      [] OTHER ->
           UpdateEnd(self, event_id, changes, failing, got.item)

\* _update_event_in_memory: found = FALSE is the None it returns for an
\* unknown id; fault numbers the backend statement that fails (0: none).
_update_event_in_memory(self, event_id, changes, fault) ==
    UpdateExisting(self, event_id, changes, fault = 2,
                   _get_event_in_memory(self, event_id, fault = 1))

\* --------------------------------------------------------- query helpers

\* The instant of an aware datetime, for <= and >=.
Instant(dt) == dt.wall - dt.off

\* dateutil_parser.isoparse(text) as an instant.
isoparse(x) == Instant(dateutil_parse(StrText(x)).dt)

\* list.sort(key=...) is stable: an element goes after the elements whose key
\* is not greater than its own.
RECURSIVE InsertByKey(_, _, _)
InsertByKey(sorted, e, k) ==
    IF sorted = <<>> \/ sorted[Len(sorted)].k <= k
    THEN Append(sorted, [k |-> k, e |-> e])
    ELSE Append(InsertByKey(SubSeq(sorted, 1, Len(sorted) - 1), e, k),
                sorted[Len(sorted)])

RECURSIVE SortedByStart(_)
SortedByStart(seq) ==
    IF seq = <<>>
    THEN <<>>
    ELSE InsertByKey(SortedByStart(SubSeq(seq, 1, Len(seq) - 1)),
                     seq[Len(seq)], isoparse(seq[Len(seq)].start))

Unkeyed(s) == [i \in DOMAIN s |-> s[i].e]

\* out.sort(key=lambda x: isoparse(x["start"])).
SortByStart(seq) == Unkeyed(SortedByStart(seq))

\* The test of line 331 as an overlap test: an event that starts before the
\* range and ends after it passes.
Overlaps(e, start, end) ==
    /\ isoparse(e.start) <= Instant(end)
    /\ IF Truthy(e.end)
       THEN isoparse(e.end) >= Instant(start)
       ELSE isoparse(e.start) >= Instant(start)

\* The test of line 331.
InRange(e, start, end) ==
    \/ (isoparse(e.start) >= Instant(start) /\ isoparse(e.start) <= Instant(end))
    \/ (Truthy(e.end) /\ isoparse(e.end) >= Instant(start)
                      /\ isoparse(e.end) <= Instant(end))

\* Lines 327-335, given the outcome ls of _list_events_in_memory().
RangeOf(ls, start, end) ==
    IF ls.exc # ""
    THEN ls
    ELSE [exc |-> "", msg |-> "",
          out |-> SortByStart(SelectSeq(ls.out, LAMBDA e : InRange(e, start, end)))]

\* _events_in_range.
_events_in_range(self, start, end, failing) ==
    RangeOf(_list_events_in_memory(self, failing), start, end)

\* Lines 344-347 on the sorted upcoming events.
FirstOf(upcoming) ==
    IF upcoming = <<>>
    THEN [exc |-> "", msg |-> "", found |-> FALSE, item |-> <<>>]
    ELSE [exc |-> "", msg |-> "", found |-> TRUE, item |-> upcoming[1]]

\* The test of line 342 with > for >=.
UpcomingStrictly(e, now_dt) == isoparse(e.start) > Instant(now_dt)

\* The test of line 342.
Upcoming(e, now_dt) == isoparse(e.start) >= Instant(now_dt)

\* Lines 339-347, given the outcome ls of _list_events_in_memory().
NextOf(ls, now_dt) ==
    IF ls.exc # ""
    THEN [exc |-> ls.exc, msg |-> ls.msg, found |-> FALSE, item |-> <<>>]
    ELSE FirstOf(SortByStart(SelectSeq(ls.out, LAMBDA e : Upcoming(e, now_dt))))

\* _find_next_event: found = FALSE is the None it returns.
_find_next_event(self, now_dt, failing) ==
    NextOf(_list_events_in_memory(self, failing), now_dt)

\* ------------------------------------------------------------ execution

\* _format_response counting the items of `events` only.
_format_responseEventsOnly(status, error, event, events) ==
    json_dumps(PyDict([status |-> PyStr(status),
                       error  |-> error,
                       event  |-> event,
                       events |-> events,
                       count  |-> PyInt(IF events # None THEN Len(events.v)
                                        ELSE 0)]))

\* _format_response: json.dumps of the envelope.
_format_response(status, error, event, events) ==
    json_dumps(PyDict([status |-> PyStr(status),
                       error  |-> error,
                       event  |-> event,
                       events |-> events,
                       count  |-> PyInt(IF events # None THEN Len(events.v)
                                        ELSE IF event # None THEN 1 ELSE 0)]))

\* `return self._format_response(...)` inside the try block: the response, or
\* the exception json.dumps raised.
Return(self, fr) == [exc |-> fr.exc, msg |-> fr.msg, self |-> self, resp |-> fr.val]

Raise(self, exc, msg) == [exc |-> exc, msg |-> msg, self |-> self, resp |-> None]

ErrorResponse(self, msg) ==
    Return(self, _format_response("error", PyStr(msg), None, None))

\* The not-found message without the id.
NoEventFound(eid) == "No event found."

\* f"No event with id {eid}."
NoEventWithId(eid) == "No event with id " \o PyFormat(eid) \o "."

\* A list of dicts as a Python value.
Dicts(seq) == PyList([i \in DOMAIN seq |-> PyDict(seq[i])])

\* Line 375, given the outcome made of _create_event_in_memory(evt).
Created(made) ==
    IF made.exc # ""
    THEN Raise(made.self, made.exc, made.msg)
    ELSE Return(made.self, _format_response("ok", None, PyDict(made.stored), None))

\* Lines 370-375; event_id is the text uuid4() gives the create.
RunCreate(self, q, event_id, fault) ==
    IF ~Truthy(DictGet(q, "event", None))
    THEN ErrorResponse(self, "Missing 'event' payload for create.")
    ELSE Created(_create_event_in_memory(self, q["event"].v, event_id, fault = 1))

\* Line 380, given the outcome items of _list_events_in_memory().
Listed(self, items) ==
    IF items.exc # ""
    THEN Raise(self, items.exc, items.msg)
    ELSE Return(self, _format_response("ok", None, None, Dicts(items.out)))

\* Lines 378-380.
RunList(self, fault) == Listed(self, _list_events_in_memory(self, fault = 1))

\* Lines 388-390, given the outcome item of _get_event_in_memory(eid).
Got(self, eid, item) ==
    CASE item.exc # "" -> Raise(self, item.exc, item.msg)
      [] item.exc = "" /\ ~item.found -> ErrorResponse(self, NoEventWithId(eid))
      [] OTHER -> Return(self, _format_response("ok", None, PyDict(item.item), None))

\* Lines 383-390.
RunGet(self, eid, fault) ==
    IF ~Truthy(eid)
    THEN ErrorResponse(self, "Missing 'id' for get.")
    ELSE Got(self, eid, _get_event_in_memory(self, eid, fault = 1))

\* Lines 398-400, given the outcome del of _delete_event_in_memory(eid).
DeleteDone(eid, del) ==
    CASE del.exc # "" -> Raise(del.self, del.exc, del.msg)
      [] del.exc = "" /\ ~del.ok -> ErrorResponse(del.self, NoEventWithId(eid))
      [] OTHER ->
           Return(del.self,
                  _format_response("ok", None, PyDict([id |-> eid]), None))

\* Lines 393-400.
RunDelete(self, eid, fault) ==
    IF ~Truthy(eid)
    THEN ErrorResponse(self, "Missing 'id' for delete.")
    ELSE DeleteDone(eid, _delete_event_in_memory(self, eid, fault))

\* Lines 409-411, given the outcome upd of _update_event_in_memory(eid, changes).
Updated(eid, upd) ==
    CASE upd.exc # "" -> Raise(upd.self, upd.exc, upd.msg)
      [] upd.exc = "" /\ ~upd.found -> ErrorResponse(upd.self, NoEventWithId(eid))
      [] OTHER ->
           Return(upd.self, _format_response("ok", None, PyDict(upd.updated), None))

\* Lines 403-411.
RunUpdate(self, eid, changes, fault) ==
    IF ~Truthy(eid) \/ ~Truthy(changes)
    THEN ErrorResponse(self, "Missing 'id' or 'event' for update.")
    ELSE Updated(eid, _update_event_in_memory(self, eid, changes.v, fault))

\* Line 420, given the outcome items of _events_in_range(start_dt, end_dt).
Ranged(self, items) ==
    IF items.exc # ""
    THEN Raise(self, items.exc, items.msg)
    ELSE Return(self, _format_response("ok", None, None, Dicts(items.out)))

\* Lines 418-420, given the outcome hi of _parse_datetime(q["end"], None).
RangeTo(self, start_dt, hi, fault) ==
    IF hi.exc # ""
    THEN Raise(self, hi.exc, hi.msg)
    ELSE Ranged(self, _events_in_range(self, start_dt, hi.dt, fault = 1))

\* Lines 417-420, given the outcome lo of _parse_datetime(q["start"], None).
RangeFrom(self, q, lo, fault) ==
    IF lo.exc # ""
    THEN Raise(self, lo.exc, lo.msg)
    ELSE RangeTo(self, lo.dt, _parse_datetime(self, q["end"], None), fault)

\* Lines 414-420.
RunFindRange(self, q, fault) ==
    IF "start" \notin DOMAIN q \/ "end" \notin DOMAIN q
    THEN ErrorResponse(self, "Missing 'start' or 'end' for find_range.")
    ELSE RangeFrom(self, q, _parse_datetime(self, q["start"], None), fault)

\* Lines 426-428, given the outcome nxt of _find_next_event(now_dt).
Found(self, nxt) ==
    CASE nxt.exc # "" -> Raise(self, nxt.exc, nxt.msg)
      [] nxt.exc = "" /\ ~nxt.found ->
           Return(self, _format_response("ok", None, None, PyList(<<>>)))
      [] OTHER ->
           Return(self, _format_response("ok", None, PyDict(nxt.item), None))

\* Lines 423-428; now is the hour datetime.now(timezone.utc) reads.
RunFindNext(self, now, fault) ==
    Found(self, _find_next_event(self, [wall |-> now, aware |-> TRUE, off |-> 0],
                                 fault = 1))

\* Lines 367-430, given the outcome n of _normalize_input(query).
Dispatch(self, n, event_id, now, fault) ==
    CASE n.exc # "" -> Raise(self, n.exc, n.msg)
      [] n.exc = "" /\ n.out["action"].v = "create" ->
           RunCreate(self, n.out, event_id, fault)
      [] n.exc = "" /\ n.out["action"].v = "list" ->
           RunList(self, fault)
      [] n.exc = "" /\ n.out["action"].v = "get" ->
           RunGet(self, DictGet(n.out, "id", None), fault)
      [] n.exc = "" /\ n.out["action"].v = "delete" ->
           RunDelete(self, DictGet(n.out, "id", None), fault)
      [] n.exc = "" /\ n.out["action"].v = "update" ->
           RunUpdate(self, DictGet(n.out, "id", None),
                     DictGet(n.out, "event", None), fault)
      [] n.exc = "" /\ n.out["action"].v = "find_range" ->
           RunFindRange(self, n.out, fault)
      [] n.exc = "" /\ n.out["action"].v = "find_next" ->
           RunFindNext(self, now, fault)
      [] OTHER ->
           ErrorResponse(self, "Unsupported action '" \o n.out["action"].v \o "'.")

\* The try block of _run (lines 365-430).
RunTry(self, query, event_id, now, fault) ==
    Dispatch(self, _normalize_input(query), event_id, now, fault)

\* What a call of _run gives its caller: the returned text, or the exception
\* that left _run.
Returned(self, fr) ==
    [self |-> self,
     resp |-> IF fr.exc = "" THEN fr.val ELSE [t |-> "raised", v |-> fr.exc]]

\* _run with the handler of line 432 only: an exception that is no ValueError
\* leaves _run.
HandlersValueErrorOnly(body) ==
    CASE body.exc = "" -> [self |-> body.self, resp |-> body.resp]
      [] body.exc # "" /\ IsValueError(body.exc) ->
           Returned(body.self,
                    _format_response("error", PyStr(body.msg), None, None))
      [] OTHER ->
           [self |-> body.self, resp |-> [t |-> "raised", v |-> body.exc]]

\* The handlers of lines 432-437 around the outcome of the try block.
Handlers(body) ==
    CASE body.exc = "" -> [self |-> body.self, resp |-> body.resp]
      [] body.exc # "" /\ IsValueError(body.exc) ->
           Returned(body.self,
                    _format_response("error", PyStr(body.msg), None, None))
      [] OTHER ->
           Returned(body.self,
                    _format_response("error",
                                     PyStr("Unexpected error: " \o body.msg),
                                     None, None))

\* _run: the try block and its two handlers.
_run(self, query, event_id, now, fault) ==
    Handlers(RunTry(self, query, event_id, now, fault))

\* ------------------------------------------------------------- requests

\* uuid4 drawing from two values only: the third draw repeats the first.
uuid4Recycled(n) == "u" \o ToString((n % 2) + 1)

\* str(uuid.uuid4()): a text no earlier draw gave.  n counts the UUIDs that
\* reached a store; one that a failed create drops is never seen again and
\* gets no number.
uuid4(n) == "u" \o ToString(n + 1)

Field(k, x) == k :> x

Action(name) == Field("action", PyStr(name))

\* Event mappings sent with create: four that are stored, four that fail.
CreateEvents ==
    { Field("title", PyStr("A")) @@ Field("description", PyStr("d"))
        @@ Field("start", PyStr("T2Z")),
      Field("title", PyStr("A")) @@ Field("description", PyStr("d"))
        @@ Field("start", PyStr("T1")) @@ Field("end", PyStr("T2Z"))
        @@ Field("timezone", PyStr("Africa/Lagos")),
      Field("start", PyStr("T1")),
      Field("title", PyStr("A")) @@ Field("start", PyStr("T2"))
        @@ Field("end", PyStr("T2+01:00"))
        @@ Field("timezone", PyStr("Mars/Phobos"))
        @@ Field("metadata", PyDict(Field("k", PyInt(1)))),
      Field("title", PyStr("A")),
      Field("title", PyStr("A")) @@ Field("start", PyStr("garbage")),
      Field("title", PyStr("A")) @@ Field("start", PyInt(5)),
      Field("title", PyStr("A")) @@ Field("start", PyStr("T1"))
        @@ Field("end", PyStr("garbage")) }

CreateQueries ==
    { PyDict(Action("create") @@ Field("event", PyDict(e))) : e \in CreateEvents }
    \cup { PyDict(Action("create")),
           PyDict(Action("create") @@ Field("event", PyDict(<<>>))),
           JsonText(PyDict(Action("CREATE")
                           @@ Field("event", PyDict(Field("start", PyStr("T1")))))) }

\* Event mappings sent with update.
SingleFieldChanges ==
    { Field("title", PyStr("B")),
      Field("description", PyStr("e")),
      Field("start", PyStr("T3")),
      Field("end", PyStr("T1Z")),
      Field("end", None),
      Field("timezone", PyStr("UTC")),
      Field("metadata", PyDict(Field("k", PyInt(2)))) }

UpdateChanges ==
    SingleFieldChanges
    \cup { Field("start", PyStr("T2")) @@ Field("end", PyStr("garbage")),
           Field("start", PyStr("T1")) @@ Field("timezone", PyStr("Africa/Lagos")),
           Field("start", PyStr("garbage")),
           Field("start", None) }

\* The ids a caller has seen, one that was never issued, the empty text and
\* an id that is no text.
KnownIds == { PyStr(uuid4(n)) : n \in 0 .. issued - 1 }

UnknownIds == { PyStr("nope"), PyStr(""), PyList(<<PyInt(1)>>) }

IdInputs == KnownIds \cup UnknownIds

WithId(fields, ids) ==
    { PyDict(fields @@ Field("id", id)) : id \in ids } \cup { PyDict(fields) }

UpdateQueries ==
    UNION { WithId(Action("update") @@ Field("event", PyDict(c)), KnownIds)
            : c \in UpdateChanges }
    \cup UNION { WithId(Action("update") @@ Field("event", PyDict(c)), UnknownIds)
                 : c \in { Field("title", PyStr("B")), Field("start", PyStr("garbage")) } }
    \cup WithId(Action("update") @@ Field("event", PyDict(<<>>)), IdInputs)

RangeBounds ==
    { <<PyStr("T1"), PyStr("T1")>>,
      <<PyStr("T1"), PyStr("T2")>>,
      <<PyStr("T2"), PyStr("T1")>>,
      <<PyDatetime(0, TRUE, 0), PyStr("T2+01:00")>>,
      <<PyStr("garbage"), PyStr("T1")>>,
      <<PyStr("T1"), None>> }

FindRangeQueries ==
    { PyDict(Action("find_range") @@ Field("start", b[1]) @@ Field("end", b[2]))
        : b \in RangeBounds }
    \cup { PyDict(Action("find_range") @@ Field("start", PyStr("T1"))) }

ListQueries ==
    { PyDict(Action("List")),
      JsonText(PyDict(Action("list") @@ Field("limit", PyStr("5")))) }

\* Payloads the normalizer or the dispatch refuses.
MalformedQueries ==
    { PyStr("not json"),
      JsonText(PyList(<<>>)),
      JsonText(PyInt(5)),
      JsonText(None),
      PyInt(5),
      PyDict(Field("action", PyInt(1))),
      PyDict(Action("frobnicate")),
      PyDict(Action("list") @@ Field("limit", PyStr("abc"))) }

\* The hours datetime.now(timezone.utc) reads.
Nows == {1, 2, 4}

\* Requests sent while the SQLite backend refuses a statement, each with the
\* number of the statement that fails: the only one, or for delete and update
\* the SELECT (1) or the DELETE / UPDATE that follows it (2).
FaultCalls ==
    { <<PyDict(Action("create")
               @@ Field("event", PyDict(Field("start", PyStr("T1"))))), 1>>,
      <<PyDict(Action("list")), 1>>,
      <<PyDict(Action("find_range") @@ Field("start", PyStr("T1"))
               @@ Field("end", PyStr("T2"))), 1>>,
      <<PyDict(Action("find_next")), 1>> }
    \cup { <<PyDict(Action("get") @@ Field("id", id)), 1>> : id \in KnownIds }
    \cup { <<PyDict(Action("delete") @@ Field("id", id)), fault>>
             : id \in KnownIds, fault \in {1, 2} }
    \cup { <<PyDict(Action("update") @@ Field("id", id)
                    @@ Field("event", PyDict(Field("title", PyStr("B"))))), fault>>
             : id \in KnownIds, fault \in {1, 2} }

\* --------------------------------------------------------- state machine

\* json.loads of a response: the envelope's fields.
Envelope(resp) == resp.v.v

\* The envelope's status; "raised" when an exception left _run and "" when
\* the tool was not called.
Status(resp) ==
    CASE resp.t = "json"   -> Envelope(resp).status.v
      [] resp.t = "raised" -> "raised"
      [] OTHER             -> ""

\* The mapping a request carries: the dict, or the document of the JSON text.
Doc(query) == IF query.t = "json" THEN query.v.v ELSE query.v

\* The creates a tool has answered with status ok: the event mapping sent and
\* the record returned.
CreatedBy(log, op, query, resp) ==
    IF op = "create" /\ Status(resp) = "ok"
    THEN log \cup { [sent |-> Doc(query)["event"].v, got |-> Envelope(resp).event.v] }
    ELSE log

\* The ids a tool has deleted with status ok.
DeletedBy(ids, op, resp) ==
    IF op = "delete" /\ Status(resp) = "ok"
    THEN ids \cup { Envelope(resp).event.v.id }
    ELSE ids

\* The ids that update and delete calls have named, whatever their outcome.
TouchedBy(ids, op, query) ==
    IF op \in {"update", "delete"} /\ "id" \in DOMAIN Doc(query)
    THEN ids \cup { Doc(query)["id"] }
    ELSE ids

\* The records a caller expects a tool to hold: the one each successful create
\* returned, replaced by the one a successful update of its id returned, and
\* dropped by a successful delete of its id.
LedgerBy(records, op, resp) ==
    CASE op = "create" /\ Status(resp) = "ok" ->
           records \cup { Envelope(resp).event.v }
      [] op = "update" /\ Status(resp) = "ok" ->
           { e \in records : e.id # Envelope(resp).event.v.id }
              \cup { Envelope(resp).event.v }
      [] op = "delete" /\ Status(resp) = "ok" ->
           { e \in records : e.id # Envelope(resp).event.v.id }
      [] OTHER -> records

\* One call of _run with the same request on both tools.  calls counts the
\* calls that changed a store and updates the updates among them; a behaviour
\* holds at most MaxMutations and MaxUpdates of them.  idle tells that the call changed neither: the
\* tools are then as they were before it, every call that can follow could
\* have been made in its place, and the behaviour is not explored further.
Call(op, query, now, fault) ==
    \E rm \in { _run(mem, query, uuid4(issued), now, fault) } :
    \E rs \in { _run(sql, query, uuid4(issued), now, fault) } :
        /\ mem' = rm.self
        /\ sql' = rs.self
        /\ respMem' = rm.resp
        /\ respSql' = rs.resp
        /\ req' = [op |-> op, query |-> query, now |-> now, fault |-> fault]
        /\ issued' = IF op = "create" /\ (rm.self # mem \/ rs.self # sql)
                     THEN issued + 1 ELSE issued
        /\ calls' = IF rm.self # mem \/ rs.self # sql THEN calls + 1 ELSE calls
        /\ updates' = IF op = "update" /\ (rm.self # mem \/ rs.self # sql)
                      THEN updates + 1 ELSE updates
        /\ idle' = (rm.self = mem /\ rs.self = sql)
        /\ calls' <= MaxMutations
        /\ updates' <= MaxUpdates
        /\ created' = [mem |-> CreatedBy(created.mem, op, query, rm.resp),
                       sql |-> CreatedBy(created.sql, op, query, rs.resp)]
        /\ deleted' = [mem |-> DeletedBy(deleted.mem, op, rm.resp),
                       sql |-> DeletedBy(deleted.sql, op, rs.resp)]
        /\ touched' = [mem |-> TouchedBy(touched.mem, op, query),
                       sql |-> TouchedBy(touched.sql, op, query)]
        /\ ledger' = [mem |-> LedgerBy(ledger.mem, op, rm.resp),
                      sql |-> LedgerBy(ledger.sql, op, rs.resp)]
        /\ UNCHANGED <<arunVars, trigVars, hubVars>>

DefaultZones == {"UTC", "Africa/Lagos"}

\* The two tools after construction with the default zone tz, no call made.
CalendarStart(tz) ==
    /\ mem = CalendarTool(None, tz)
    /\ sql = CalendarTool(PyStr("events.db"), tz)
    /\ req = [op |-> "", query |-> None, now |-> 0, fault |-> 0]
    /\ respMem = None
    /\ respSql = None
    /\ issued = 0
    /\ calls = 0
    /\ updates = 0
    /\ idle = FALSE
    /\ created = [mem |-> {}, sql |-> {}]
    /\ deleted = [mem |-> {}, sql |-> {}]
    /\ touched = [mem |-> {}, sql |-> {}]
    /\ ledger = [mem |-> {}, sql |-> {}]

\* No worker thread runs.
NoThreads ==
    /\ base = None
    /\ shared = None
    /\ threads = <<>>

\* No TrigonometryTool call was made.
NoTrigCall ==
    /\ trigQuery = None
    /\ trigResp = None

\* No HuggingFaceHubTool exists.
NoHubTool ==
    /\ hubTool = None
    /\ hubQuery = None
    /\ hubClient = None
    /\ hubCalls = <<>>
    /\ hubResp = None

Init ==
    /\ \E tz \in DefaultZones : CalendarStart(tz)
    /\ NoThreads
    /\ NoTrigCall
    /\ NoHubTool

Create ==
    /\ ~idle
    /\ \E query \in CreateQueries : Call("create", query, 0, 0)

List ==
    /\ ~idle
    /\ \E query \in ListQueries : Call("list", query, 0, 0)

Get ==
    /\ ~idle
    /\ \E query \in WithId(Action("get"), IdInputs) : Call("get", query, 0, 0)

Update ==
    /\ ~idle
    /\ \E query \in UpdateQueries : Call("update", query, 0, 0)

Delete ==
    /\ ~idle
    /\ \E query \in WithId(Action("delete"), IdInputs) : Call("delete", query, 0, 0)

FindRange ==
    /\ ~idle
    /\ \E query \in FindRangeQueries : Call("find_range", query, 0, 0)

FindNext ==
    /\ ~idle
    /\ \E now \in Nows : Call("find_next", PyDict(Action("find_next")), now, 0)

Malformed ==
    /\ ~idle
    /\ \E query \in MalformedQueries : Call("malformed", query, 0, 0)

\* A call of _run on the SQLite tool during which the backend refuses a
\* statement.  The in-memory tool has no backend and takes no part.
BackendFailure ==
    /\ ~idle
    /\ \E c \in FaultCalls :
       \E rs \in { _run(sql, c[1], uuid4(issued), 0, c[2]) } :
          /\ sql' = rs.self
          /\ respSql' = rs.resp
          /\ req' = [op |-> c[1].v["action"].v, query |-> c[1], now |-> 0,
                     fault |-> c[2]]
          /\ issued' = IF rs.self # sql /\ c[1].v["action"].v = "create"
                       THEN issued + 1 ELSE issued
          /\ calls' = IF rs.self # sql THEN calls + 1 ELSE calls
          /\ idle' = (rs.self = sql)
          /\ updates' = IF rs.self # sql /\ c[1].v["action"].v = "update"
                        THEN updates + 1 ELSE updates
          /\ created' = [created EXCEPT !.sql =
                           CreatedBy(@, c[1].v["action"].v, c[1], rs.resp)]
          /\ deleted' = [deleted EXCEPT !.sql =
                           DeletedBy(@, c[1].v["action"].v, rs.resp)]
          /\ touched' = [touched EXCEPT !.sql =
                           TouchedBy(@, c[1].v["action"].v, c[1])]
          /\ ledger' = [ledger EXCEPT !.sql =
                          LedgerBy(@, c[1].v["action"].v, rs.resp)]
          /\ respMem' = None
          /\ UNCHANGED mem
          /\ UNCHANGED <<arunVars, trigVars, hubVars>>
          /\ calls' <= MaxMutations
          /\ updates' <= MaxUpdates

Next ==
    \/ Create
    \/ List
    \/ Get
    \/ Update
    \/ Delete
    \/ FindRange
    \/ FindNext
    \/ Malformed
    \/ BackendFailure

Spec == Init /\ [][Next]_vars

\* --------------------------------------------------------- observations

\* The set of events a tool holds, and their ids.
Events(self) == { Held(self)[i] : i \in DOMAIN Held(self) }

Ids(self) == { e.id : e \in Events(self) }

\* The id and the event mapping a get, update or delete request carries.
NamesId(r) == r.op \in {"get", "update", "delete"} /\ "id" \in DOMAIN Doc(r.query)

RequestId(r) == Doc(r.query)["id"]

Changes(r) == Doc(r.query)["event"].v

\* ---------------------------------------------------------------- C1

\* C1: a call that returns status "error" leaves the store exactly as it was
\* before the call: the same ids, and every field of every stored event
\* unchanged (in particular an in-memory update with a parseable start and an
\* unparseable end).
C1_ErrorLeavesStore ==
    [][ /\ (Status(respMem') = "error" => Held(mem') = Held(mem))
        /\ (Status(respSql') = "error" => Held(sql') = Held(sql)) ]_vars

\* The case C1 names: an in-memory update with a parseable start and an
\* unparseable end was answered with status "error".
C1_HalfParsedUpdate ==
    /\ req.op = "update"
    /\ req.fault = 0
    /\ Status(respMem) = "error"
    /\ NamesId(req)
    /\ RequestId(req) \in Ids(mem)
    /\ DOMAIN Changes(req) = {"start", "end"}
    /\ Changes(req)["start"] = PyStr("T2")
    /\ Changes(req)["end"] = PyStr("garbage")

\* ---------------------------------------------------------------- C2

SingleFields == {"title", "description", "start", "end", "timezone", "metadata"}

\* The frame of update(id, {f: v}) between the events held before and after.
OnlyFieldChanged(before, after, id, f, v) ==
    /\ Len(after) = Len(before)
    /\ \A i \in DOMAIN before :
          IF before[i].id = id
          THEN /\ \A k \in DOMAIN before[i] \ {f} : after[i][k] = before[i][k]
               /\ f \in {"title", "description", "timezone", "metadata"}
                     => after[i][f] = v
          ELSE after[i] = before[i]

\* A successful update whose event mapping carries exactly one field.
SingleFieldUpdate(r, resp) ==
    /\ r.op = "update"
    /\ r.fault = 0
    /\ Status(resp) = "ok"
    /\ \E f \in SingleFields : DOMAIN Changes(r) = {f}

\* C2: a successful update(id, {field: v}) with a single supplied field changes
\* only that field of the event with that id; its id and all other fields
\* keep their pre-update values and every other stored event is unchanged.
C2_UpdateChangesOnlyField ==
    [][ /\ SingleFieldUpdate(req', respMem') =>
             \A f \in DOMAIN Changes(req') :
                OnlyFieldChanged(Held(mem), Held(mem'), RequestId(req'),
                                 f, Changes(req')[f])
        /\ SingleFieldUpdate(req', respSql') =>
             \A f \in DOMAIN Changes(req') :
                OnlyFieldChanged(Held(sql), Held(sql'), RequestId(req'),
                                 f, Changes(req')[f]) ]_vars

\* A single-field update of start succeeded on both tools while each holds a
\* second event.
C2_Witness ==
    /\ SingleFieldUpdate(req, respMem)
    /\ SingleFieldUpdate(req, respSql)
    /\ DOMAIN Changes(req) = {"start"}
    /\ Len(Held(mem)) = 2
    /\ Len(Held(sql)) = 2

\* ---------------------------------------------------------------- C3

\* The ids earlier creates returned.
CreatedIds(log) == { c.got.id : c \in log }

\* A create answered with status ok.
SuccessfulCreate(r, resp) == r.op = "create" /\ Status(resp) = "ok"

\* C3: every successful create returns an event whose id is non-empty and
\* differs from the id every earlier create on the same store returned, the
\* creates whose event has since been deleted included.
C3_IdsNeverReused ==
    [][ /\ SuccessfulCreate(req', respMem') =>
             /\ Envelope(respMem').event.v.id.v # ""
             /\ Envelope(respMem').event.v.id \notin CreatedIds(created.mem)
        /\ SuccessfulCreate(req', respSql') =>
             /\ Envelope(respSql').event.v.id.v # ""
             /\ Envelope(respSql').event.v.id \notin CreatedIds(created.sql) ]_vars

\* A create succeeded after an earlier create whose event has been deleted.
C3_Witness ==
    /\ SuccessfulCreate(req, respMem)
    /\ SuccessfulCreate(req, respSql)
    /\ Cardinality(created.mem) = 2
    /\ Cardinality(created.sql) = 2
    /\ deleted.mem # {}
    /\ deleted.sql # {}

\* ---------------------------------------------------------------- C4

\* The UTC hour a supplied date/time text denotes; a text that names no zone
\* is read in `zone`, and in UTC when the zone is unknown.
UtcHourOf(text, zone) ==
    CASE text = "T1Z"      -> 1
      [] text = "T2Z"      -> 2
      [] text = "T3Z"      -> 3
      [] text = "T2+01:00" -> 1
      [] text = "T1"       -> IF zone = "Africa/Lagos" THEN 0 ELSE 1
      [] text = "T2"       -> IF zone = "Africa/Lagos" THEN 1 ELSE 2
      [] text = "T3"       -> IF zone = "Africa/Lagos" THEN 2 ELSE 3

\* The text the store keeps for a UTC hour.
UtcText(hour) == PyStr("T" \o ToString(hour) \o "Z")

\* The zone a create reads naive texts in: the event's, else the tool's.
SentZone(self, sent) ==
    IF "timezone" \in DOMAIN sent THEN sent["timezone"].v ELSE self.default_timezone

\* The record a get returns for the create c: the one the create returned,
\* with the title, description and UTC-normalized start and end supplied.
RoundTrip(self, c, event) ==
    /\ event = PyDict(c.got)
    /\ event.v.title = DictGet(c.sent, "title", None)
    /\ event.v.description = DictGet(c.sent, "description", None)
    /\ event.v.start = UtcText(UtcHourOf(c.sent["start"].v, SentZone(self, c.sent)))
    /\ event.v.end = IF "end" \in DOMAIN c.sent
                     THEN UtcText(UtcHourOf(c.sent["end"].v, SentZone(self, c.sent)))
                     ELSE None

\* A get of the id the create c returned, no update or delete having named
\* that id since.
GetOfCreated(r, c, named) ==
    /\ r.op = "get"
    /\ r.fault = 0
    /\ NamesId(r)
    /\ RequestId(r) = c.got.id
    /\ c.got.id \notin named

\* C4: after a successful create(event), a get with the returned id, with no
\* update or delete of that id in between, returns status ok and the record
\* the create returned, whose title and description are those supplied and
\* whose start and end are the supplied ones normalized to UTC.
C4_CreateGetRoundTrip ==
    /\ \A c \in created.mem :
          GetOfCreated(req, c, touched.mem) =>
             /\ Status(respMem) = "ok"
             /\ RoundTrip(mem, c, Envelope(respMem).event)
    /\ \A c \in created.sql :
          GetOfCreated(req, c, touched.sql) =>
             /\ Status(respSql) = "ok"
             /\ RoundTrip(sql, c, Envelope(respSql).event)

\* Both tools answered the get of an event created with a start that names no
\* zone, an end, and the zone Africa/Lagos.
C4_Witness ==
    /\ \E c \in created.mem :
          /\ GetOfCreated(req, c, touched.mem)
          /\ c.sent["start"] = PyStr("T1")
          /\ "end" \in DOMAIN c.sent
          /\ SentZone(mem, c.sent) = "Africa/Lagos"
    /\ \E c \in created.sql : GetOfCreated(req, c, touched.sql)
    /\ Status(respMem) = "ok"
    /\ Status(respSql) = "ok"

\* ---------------------------------------------------------------- C5

\* The text of the not-found error for an id.
NotFoundText(id) == PyStr("No event with id " \o id.v \o ".")

\* The answer to a get, update or delete that names an id deleted earlier:
\* status error, and the not-found message unless the backend failed or the
\* update carries no field.
AfterDelete(r, resp, gone) ==
    (NamesId(r) /\ RequestId(r) \in gone) =>
        /\ Status(resp) = "error"
        /\ (/\ r.fault = 0
            /\ r.op = "update" => Truthy(DictGet(Doc(r.query), "event", None)))
              => Envelope(resp).error = NotFoundText(RequestId(r))

\* C5: after a successful delete(id) every later get, update or delete with
\* that id returns status "error" (not found), never ok; a second delete of
\* the id reports not found rather than success.
C5_DeleteIsPermanent ==
    [][ /\ req'.fault = 0 => AfterDelete(req', respMem', deleted.mem)
        /\ AfterDelete(req', respSql', deleted.sql) ]_vars

\* A second delete of an id both tools had deleted was answered.
C5_Witness ==
    /\ req.op = "delete"
    /\ req.fault = 0
    /\ NamesId(req)
    /\ RequestId(req) \in deleted.mem
    /\ RequestId(req) \in deleted.sql
    /\ Status(respMem) = "error"
    /\ Status(respSql) = "error"
    /\ Ids(mem) # {}

\* ---------------------------------------------------------------- C6

\* The UTC hour of a start or end text the store holds.
StoredHour(x) == CHOOSE h \in -2 .. 4 : x = UtcText(h)

\* The UTC hour of a find_range bound: a datetime, or a text read in the
\* tool's default zone.
BoundHour(self, x) ==
    IF x.t = "datetime"
    THEN x.v.wall - x.v.off
    ELSE UtcHourOf(x.v, self.default_timezone)

BoundTexts == {"T1", "T2", "T3", "T1Z", "T2Z", "T3Z", "T2+01:00"}

Parseable(x) == x.t = "datetime" \/ (x.t = "str" /\ x.v \in BoundTexts)

\* A find_range request whose two bounds are date/times.
RangeRequest(r) ==
    /\ r.op = "find_range"
    /\ r.fault = 0
    /\ "start" \in DOMAIN Doc(r.query)
    /\ "end" \in DOMAIN Doc(r.query)
    /\ Parseable(Doc(r.query)["start"])
    /\ Parseable(Doc(r.query)["end"])

\* The start or the present end of e lies in the closed interval [a, b].
Qualifies(e, a, b) ==
    \/ (a <= StoredHour(e.start) /\ StoredHour(e.start) <= b)
    \/ (e.end # None /\ a <= StoredHour(e.end) /\ StoredHour(e.end) <= b)

\* out lists exactly the qualifying events of held, each once, by ascending
\* start.
RangeAnswer(held, out, a, b) ==
    /\ \A i \in DOMAIN out : out[i].v \in held /\ Qualifies(out[i].v, a, b)
    /\ \A e \in held :
          Qualifies(e, a, b) => Cardinality({ i \in DOMAIN out : out[i].v = e }) = 1
    /\ \A i, j \in DOMAIN out :
          i < j => StoredHour(out[i].v.start) <= StoredHour(out[j].v.start)

FoundInRange(self, r, resp) ==
    RangeRequest(r) =>
        /\ Status(resp) = "ok"
        /\ Envelope(resp).events.t = "list"
        /\ RangeAnswer(Events(self), Envelope(resp).events.v,
                       BoundHour(self, Doc(r.query)["start"]),
                       BoundHour(self, Doc(r.query)["end"]))
        /\ Envelope(resp).count = PyInt(Len(Envelope(resp).events.v))

\* C6: find_range(a, b) returns status ok with exactly the stored events whose
\* start lies in [a, b] or whose end is present and lies in [a, b], each once,
\* by ascending start; an event with neither inside [a, b] is not returned,
\* and when none qualifies events is [] and count is 0.
C6_FindRange ==
    [][ /\ FoundInRange(mem, req', respMem')
        /\ FoundInRange(sql, req', respSql') ]_vars

\* A stored event that starts before a and ends after b.
Spans(e, a, b) ==
    StoredHour(e.start) < a /\ e.end # None /\ StoredHour(e.end) > b

\* A find_range returned two of three stored events and left out the third,
\* which starts before the range and ends after it.
C6_Witness ==
    /\ RangeRequest(req)
    /\ Status(respMem) = "ok"
    /\ Status(respSql) = "ok"
    /\ Len(Envelope(respMem).events.v) = 2
    /\ Len(Envelope(respSql).events.v) = 2
    /\ \E e \in Events(mem) :
          Spans(e, BoundHour(mem, Doc(req.query)["start"]),
                BoundHour(mem, Doc(req.query)["end"]))

\* ---------------------------------------------------------------- C7

\* event is a stored event of minimal start among those starting at T or
\* later; with no such event there is no event and the count is 0.
NextAnswer(held, envelope, T) ==
    IF \E e \in held : StoredHour(e.start) >= T
    THEN /\ envelope.event.t = "dict"
         /\ envelope.event.v \in held
         /\ StoredHour(envelope.event.v.start) >= T
         /\ \A e \in held :
               StoredHour(e.start) >= T
                  => StoredHour(envelope.event.v.start) <= StoredHour(e.start)
    ELSE /\ envelope.event = None
         /\ envelope.count = PyInt(0)

FoundNext(self, r, resp) ==
    (r.op = "find_next" /\ r.fault = 0) =>
        /\ Status(resp) = "ok"
        /\ NextAnswer(Events(self), Envelope(resp), r.now)

\* C7: find_next at current time T returns as event a stored event whose
\* start is >= T and minimal among the stored events with start >= T; when
\* every stored event starts before T, or the store is empty, it returns
\* status ok with no event (event null, count 0).
C7_FindNext ==
    [][ /\ FoundNext(mem, req', respMem')
        /\ FoundNext(sql, req', respSql') ]_vars

\* A find_next returned an event while the store holds an event that starts
\* before T and two that start at T or later, the later one created first.
C7_Witness ==
    /\ req.op = "find_next"
    /\ req.fault = 0
    /\ Envelope(respMem).event # None
    /\ Envelope(respSql).event # None
    /\ \E e \in Events(mem) : StoredHour(e.start) < req.now
    /\ \E i, j \in DOMAIN Held(mem) :
          /\ i < j
          /\ StoredHour(Held(mem)[j].start) >= req.now
          /\ StoredHour(Held(mem)[i].start) > StoredHour(Held(mem)[j].start)

\* ---------------------------------------------------------------- C8

\* A get, a delete, or an update with a non-empty event mapping, that names
\* an id (a non-empty text) the tool does not hold.
UnknownIdRequest(self, r) ==
    /\ NamesId(r)
    /\ r.fault = 0
    /\ RequestId(r).t = "str"
    /\ RequestId(r).v # ""
    /\ RequestId(r) \notin Ids(self)
    /\ r.op = "update" => Truthy(DictGet(Doc(r.query), "event", None))

NotFoundEnvelope(envelope, id) ==
    /\ envelope.status = PyStr("error")
    /\ envelope.error = NotFoundText(id)
    /\ envelope.event = None
    /\ envelope.count = PyInt(0)

\* C8: get, update (with a non-empty event mapping) and delete called with an
\* id that is not in the store return status "error" with the message
\* "No event with id <id>.", event null and count 0, and add, remove or modify
\* no stored event.
C8_UnknownId ==
    [][ /\ UnknownIdRequest(mem, req') =>
             /\ NotFoundEnvelope(Envelope(respMem'), RequestId(req'))
             /\ Held(mem') = Held(mem)
        /\ UnknownIdRequest(sql, req') =>
             /\ NotFoundEnvelope(Envelope(respSql'), RequestId(req'))
             /\ Held(sql') = Held(sql) ]_vars

\* An update with an unparseable start named an id neither tool holds, while
\* each holds an event.
C8_Witness ==
    /\ req.op = "update"
    /\ UnknownIdRequest(mem, req)
    /\ UnknownIdRequest(sql, req)
    /\ Changes(req) = Field("start", PyStr("garbage"))
    /\ Ids(mem) # {}
    /\ Ids(sql) # {}
    /\ Status(respMem) = "error"

\* ---------------------------------------------------------------- C9

\* A response envelope: status ok or error, error non-null exactly with error.
IsEnvelope(resp) ==
    /\ resp.t = "json"
    /\ resp.v.t = "dict"
    /\ DOMAIN resp.v.v = {"status", "error", "event", "events", "count"}
    /\ resp.v.v.status \in {PyStr("ok"), PyStr("error")}
    /\ (resp.v.v.error # None) <=> (resp.v.v.status = PyStr("error"))

\* C9: _run never raises: for every payload, action, field value and backend
\* failure it returns an envelope whose status is "ok" or "error", with error
\* non-null exactly when the status is "error".
C9_RunAlwaysAnswers ==
    req.op # "" =>
        /\ req.fault = 0 => IsEnvelope(respMem)
        /\ IsEnvelope(respSql)

\* The SQLite backend refused the DELETE of a stored event, and the call was
\* answered with the catch-all error.
C9_Witness ==
    /\ req.op = "delete"
    /\ req.fault = 2
    /\ RequestId(req) \in Ids(sql)
    /\ Envelope(respSql).error = PyStr("Unexpected error: disk I/O error")

\* --------------------------------------------------------------- C10

\* A request the caller could send to either tool: no backend failure, and
\* any id it names is a text.
CommonRequest(r) ==
    /\ r.op # ""
    /\ r.fault = 0
    /\ NamesId(r) => RequestId(r).t = "str"

\* C10: the in-memory and the SQLite tool, run side by side on the same
\* requests, return the same status and error for every request and hold the
\* same events with the same field values after every request.
C10_SameSemantics ==
    [][ (CommonRequest(req') /\ Events(mem) = Events(sql)) =>
           /\ Status(respMem') = Status(respSql')
           /\ Envelope(respMem').error = Envelope(respSql').error
           /\ Events(mem') = Events(sql') ]_vars

\* The two tools, holding the same events, were sent an update with a
\* parseable start and an unparseable end and gave the same error.
C10_HalfParsedUpdate ==
    /\ C1_HalfParsedUpdate
    /\ Status(respSql) = "error"
    /\ Envelope(respMem).error = Envelope(respSql).error
    /\ Events(mem) # Events(sql)

\* --------------------------------------------------------------- C12

\* The error text is one the catch-all handler of line 437 wrote.
IsUnexpectedError(envelope) ==
    /\ envelope.error.t = "str"
    /\ Len(envelope.error.v) >= 18
    /\ SubSeq(envelope.error.v, 1, 18) = "Unexpected error: "

\* The validation-error outcome: status "error" with a message that is not
\* the catch-all handler's.
ValidationOutcome(resp) ==
    /\ Status(resp) = "error"
    /\ ~IsUnexpectedError(Envelope(resp))

\* A payload that is a text holding no JSON, a text whose JSON document is no
\* mapping, or a value that is neither a text nor a mapping.
NotAMapping(query) ==
    \/ query.t = "str"
    \/ (query.t = "json" /\ query.v.t # "dict")
    \/ query.t \notin {"str", "json", "dict"}

\* C12: a text payload that is not parseable as JSON, and a payload that is
\* not a mapping (a JSON text that decodes to a list, number, string or null
\* included), is answered with the validation-error outcome, not with a
\* message prefixed "Unexpected error:".
C12_NonMappingIsValidationError ==
    (req.op # "" /\ req.fault = 0 /\ NotAMapping(req.query)) =>
        /\ ValidationOutcome(respMem)
        /\ ValidationOutcome(respSql)

\* A JSON text that decodes to a list was answered.
C12_JsonListAnswered ==
    /\ req.op = "malformed"
    /\ req.query = JsonText(PyList(<<>>))
    /\ Status(respMem) = "error"
    /\ Status(respSql) = "error"

\* --------------------------------------------------------------- C13

\* A create whose event mapping lacks start, or whose start is neither a text
\* nor a datetime.
BadStartCreate(r) ==
    /\ r.op = "create"
    /\ r.fault = 0
    /\ "event" \in DOMAIN Doc(r.query)
    /\ Doc(r.query)["event"].t = "dict"
    /\ \/ "start" \notin DOMAIN Doc(r.query)["event"].v
       \/ Doc(r.query)["event"].v["start"].t \notin {"str", "json", "datetime"}

\* C13: a create whose event mapping lacks start, or whose start is not a
\* text or an instant, is answered with status "error" and a validation
\* message, not one prefixed "Unexpected error:", and stores no event.
C13_BadStartIsValidationError ==
    [][ BadStartCreate(req') =>
           /\ ValidationOutcome(respMem')
           /\ ValidationOutcome(respSql')
           /\ Held(mem') = Held(mem)
           /\ Held(sql') = Held(sql) ]_vars

\* A create whose event mapping carries a title and no start was answered
\* with status "error" and stored nothing.
C13_MissingStart ==
    /\ BadStartCreate(req)
    /\ Truthy(Doc(req.query)["event"])
    /\ "start" \notin DOMAIN Doc(req.query)["event"].v
    /\ Status(respMem) = "error"
    /\ Status(respSql) = "error"
    /\ Held(mem) = <<>>

\* --------------------------------------------------------------- C14

\* The texts of the UTC instants: "T<hour>Z".
UtcTexts == { UtcText(h) : h \in -2 .. 4 }

\* C14: in every reachable state every stored event has a present, non-null
\* start that is a UTC-normalized instant, whatever creates and updates were
\* sent (an update with start null or an unparseable start included).
C14_StartAlwaysNormalized ==
    \A e \in Events(mem) \cup Events(sql) :
        /\ "start" \in DOMAIN e
        /\ e.start # None
        /\ e.start \in UtcTexts

\* An update with start null named an event both tools hold and was refused.
C14_Witness ==
    /\ req.op = "update"
    /\ req.fault = 0
    /\ NamesId(req)
    /\ RequestId(req) \in Ids(mem)
    /\ RequestId(req) \in Ids(sql)
    /\ Changes(req) = Field("start", None)
    /\ Status(respMem) = "error"
    /\ Status(respSql) = "error"

\* --------------------------------------------------------------- C15

\* The event mapping a create request carries.
SentEvent(r) == Doc(r.query)["event"].v

\* The record a successful create returned is held, and its start and end are
\* the supplied texts read in the event's zone, else the tool's default zone,
\* an unknown zone counting as UTC, and written in UTC; a text that names its
\* zone keeps its instant.
ZoneResolved(self, r, resp) ==
    (r.op = "create" /\ r.fault = 0 /\ Status(resp) = "ok") =>
        /\ Envelope(resp).event.v \in Events(self)
        /\ Envelope(resp).event.v.start =
              UtcText(UtcHourOf(SentEvent(r)["start"].v, SentZone(self, SentEvent(r))))
        /\ "end" \in DOMAIN SentEvent(r) =>
              Envelope(resp).event.v.end =
                 UtcText(UtcHourOf(SentEvent(r)["end"].v, SentZone(self, SentEvent(r))))

\* C15: on create a start/end without zone is read in the event's timezone if
\* given, else in the store's default zone, and in UTC if that zone name is
\* unrecognized, then stored in UTC; a start/end that carries a zone or offset
\* is stored as the same instant whatever the event's timezone and the store
\* default are.
C15_CreateZoneResolution ==
    /\ ZoneResolved(mem, req, respMem)
    /\ ZoneResolved(sql, req, respSql)

\* Tools whose default zone is Africa/Lagos stored an event sent with a start
\* without zone, an end with an offset and an unrecognized zone name.
C15_Witness ==
    /\ req.op = "create"
    /\ req.fault = 0
    /\ Status(respMem) = "ok"
    /\ Status(respSql) = "ok"
    /\ mem.default_timezone = "Africa/Lagos"
    /\ SentZone(mem, SentEvent(req)) = "Mars/Phobos"
    /\ SentEvent(req)["start"] = PyStr("T2")
    /\ SentEvent(req)["end"] = PyStr("T2+01:00")

\* --------------------------------------------------------------- C16

\* The count the envelope's events and event call for.
CountOf(envelope) ==
    IF envelope.events # None
    THEN Len(envelope.events.v)
    ELSE IF envelope.event # None THEN 1 ELSE 0

CountRule(r, resp) ==
    resp.t = "json" =>
        /\ Envelope(resp).count = PyInt(CountOf(Envelope(resp)))
        /\ Status(resp) = "error" => Envelope(resp).count = PyInt(0)
        /\ (Status(resp) = "ok" /\ r.op \in {"list", "find_range"}) =>
              /\ Envelope(resp).events # None
              /\ Envelope(resp).count = PyInt(Len(Envelope(resp).events.v))
        /\ (Status(resp) = "ok" /\ r.op \in {"create", "get", "update", "delete"}) =>
              Envelope(resp).count = PyInt(1)

\* C16: in every response count is the number of items of events when events
\* is present, else 1 if event is present, else 0; every error response has
\* count 0, list and find_range have count = length of events, and the
\* successes of create, get, update and delete have count 1.
C16_CountRule ==
    /\ CountRule(req, respMem)
    /\ CountRule(req, respSql)

\* A list was answered with two events.
C16_Witness ==
    /\ req.op = "list"
    /\ Status(respMem) = "ok"
    /\ Status(respSql) = "ok"
    /\ Len(Envelope(respMem).events.v) = 2
    /\ Len(Envelope(respSql).events.v) = 2

\* --------------------------------------------------------------- C18

\* The zone an update reads texts without zone in: the one the update
\* carries, else the one the event held before the update.
ZoneOfUpdate(r, before) ==
    IF "timezone" \in DOMAIN Changes(r)
    THEN Changes(r)["timezone"].v
    ELSE before.timezone.v

\* The event `after` a successful update of the event `before`.
UpdateZoneRule(r, before, after) ==
    /\ ("start" \in DOMAIN Changes(r)) =>
          after.start = UtcText(UtcHourOf(Changes(r)["start"].v, ZoneOfUpdate(r, before)))
    /\ ("end" \in DOMAIN Changes(r) /\ Changes(r)["end"] # None) =>
          after.end = UtcText(UtcHourOf(Changes(r)["end"].v, ZoneOfUpdate(r, before)))
    /\ DOMAIN Changes(r) = {"timezone"} =>
          /\ after.timezone = Changes(r)["timezone"]
          /\ after.start = before.start
          /\ after.end = before.end

ZoneKeptByUpdate(r, resp, held, heldAfter) ==
    (r.op = "update" /\ r.fault = 0 /\ Status(resp) = "ok") =>
        \A i \in DOMAIN held :
            held[i].id = RequestId(r) => UpdateZoneRule(r, held[i], heldAfter[i])

\* C18: an update that supplies a start or end without zone reads it in the
\* timezone the same update supplies, otherwise in the timezone the event
\* holds (not the store default); an update that supplies only timezone
\* changes the stored zone name and leaves the stored start and end as they
\* were.
C18_UpdateZoneResolution ==
    [][ /\ ZoneKeptByUpdate(req', respMem', Held(mem), Held(mem'))
        /\ ZoneKeptByUpdate(req', respSql', Held(sql), Held(sql')) ]_vars

\* Tools whose default zone is UTC updated the start, sent without zone, of
\* an event that holds the zone Africa/Lagos.
C18_Witness ==
    /\ req.op = "update"
    /\ req.fault = 0
    /\ Status(respMem) = "ok"
    /\ Status(respSql) = "ok"
    /\ Changes(req) = Field("start", PyStr("T3"))
    /\ mem.default_timezone = "UTC"
    /\ Envelope(respMem).event.v.timezone = PyStr("Africa/Lagos")
    /\ Envelope(respSql).event.v.timezone = PyStr("Africa/Lagos")

\* --------------------------------------------------------------- C17

\* The answer to a list: status ok, and events holds exactly the expected
\* records, each once.
ListsLedger(r, resp, records) ==
    (r.op = "list" /\ r.fault = 0) =>
        /\ Status(resp) = "ok"
        /\ Envelope(resp).events.t = "list"
        /\ { Envelope(resp).events.v[i].v : i \in DOMAIN Envelope(resp).events.v }
              = records
        /\ Len(Envelope(resp).events.v) = Cardinality(records)

\* C17: after any sequence of operations list returns status ok with exactly
\* the events currently held: one record for each id a successful create
\* returned and no successful delete removed since, no other record, no
\* duplicate, each record carrying the field values of its create as modified
\* by the successful updates of that id.
C17_ListReturnsHeld ==
    /\ ListsLedger(req, respMem, ledger.mem)
    /\ ListsLedger(req, respSql, ledger.sql)

\* A list was answered after a create and an update of the created event that
\* was answered with status "error".
C17_ListAfterFailedUpdate ==
    /\ req.op = "list"
    /\ req.fault = 0
    /\ Status(respMem) = "ok"
    /\ Cardinality(ledger.mem) = 1
    /\ Len(Envelope(respMem).events.v) = 1
    /\ Envelope(respMem).events.v[1].v \notin ledger.mem

\* ------------------------------------------------ _arun: worker threads

\* _arun hands each call of _run to a worker thread (asyncio.to_thread), so
\* the calls dispatched together run concurrently on one tool object.  A
\* thread is interleaved with the others between its backend statements: the
\* SQLite connection is shared (check_same_thread=False) and every statement
\* is committed on its own; a dict operation of the in-memory variant is one
\* step of the interpreter.
Workers == {1, 2}

\* The event the tool holds when the calls are dispatched.
ArunStored ==
    PyDict(Action("create")
           @@ Field("event", PyDict(Field("title", PyStr("A"))
                                    @@ Field("description", PyStr("d"))
                                    @@ Field("start", PyStr("T2Z")))))

\* The calls dispatched together.
ArunQueries ==
    { PyDict(Action("delete") @@ Field("id", PyStr("u1"))),
      PyDict(Action("update") @@ Field("id", PyStr("u1"))
             @@ Field("event", PyDict(Field("title", PyStr("B"))))),
      PyDict(Action("update") @@ Field("id", PyStr("u1"))
             @@ Field("event", PyDict(Field("description", PyStr("e"))))),
      PyDict(Action("update") @@ Field("id", PyStr("u1"))
             @@ Field("event", PyDict(Field("end", PyStr("garbage"))))),
      PyDict(Action("get") @@ Field("id", PyStr("u1"))),
      PyDict(Action("delete") @@ Field("id", PyStr("nope"))),
      PyDict(Action("list")),
      PyDict(Action("create")
             @@ Field("event", PyDict(Field("start", PyStr("T1"))))) }

\* The outcome slot of a thread that has read nothing yet.
NoRead == [exc |-> "", msg |-> "", found |-> FALSE, item |-> <<>>]

\* Whether the call reads the event and writes it back in two statements with
\* other threads able to run in between: update (lines 292 and 318-321) on
\* both variants, and delete on the SQLite variant (lines 285 and 287).  The
\* in-memory delete is the single dict.pop of line 289.
TwoStatements(self, n) ==
    /\ n.exc = ""
    /\ Truthy(DictGet(n.out, "id", None))
    /\ \/ (n.out["action"].v = "delete" /\ self._use_sqlite)
       \/ (n.out["action"].v = "update" /\ Truthy(DictGet(n.out, "event", None)))

\* `existing` when the thread goes on: the in-memory variant holds the stored
\* dict itself, which shows what other threads assigned to it in between;
\* the SQLite variant holds the copy it built from the row it read.
Current(self, eid, got) ==
    IF ~self._use_sqlite /\ got.exc = "" /\ got.found /\ HasId(self._in_memory, eid)
    THEN [got EXCEPT !.item = self._in_memory[IndexOfId(self._in_memory, eid)]]
    ELSE got

\* The rest of _run after the read of line 285 or 292, on the tool as it is
\* now.
AfterRead(self, n, got) ==
    IF n.out["action"].v = "delete"
    THEN Handlers(DeleteDone(n.out["id"],
                             DeletePersisted(self, n.out["id"], FALSE, got)))
    ELSE Handlers(Updated(n.out["id"],
                          UpdateExisting(self, n.out["id"], n.out["event"].v, FALSE,
                                         Current(self, n.out["id"], got))))

\* The worker runs a call that touches the backend in one statement.
ArunWhole(t) ==
    /\ threads[t].pc = "start"
    /\ ~TwoStatements(shared, _normalize_input(threads[t].query))
    /\ \E r \in { _run(shared, threads[t].query, uuid4(t), 0, 0) } :
          /\ shared' = r.self
          /\ threads' = [threads EXCEPT ![t].pc = "done", ![t].resp = r.resp]
    /\ UNCHANGED <<base, calendarVars, trigVars, hubVars>>

\* The worker reads the event its delete or update names.
ArunRead(t) ==
    /\ threads[t].pc = "start"
    /\ TwoStatements(shared, _normalize_input(threads[t].query))
    /\ threads' = [threads EXCEPT
                     ![t].pc = "read",
                     ![t].got = _get_event_in_memory(
                                    shared,
                                    _normalize_input(threads[t].query).out["id"],
                                    FALSE)]
    /\ UNCHANGED <<base, shared, calendarVars, trigVars, hubVars>>

\* The worker deletes or writes back the event it read and answers.
ArunWrite(t) ==
    /\ threads[t].pc = "read"
    /\ \E r \in { AfterRead(shared, _normalize_input(threads[t].query),
                            threads[t].got) } :
          /\ shared' = r.self
          /\ threads' = [threads EXCEPT ![t].pc = "done", ![t].resp = r.resp]
    /\ UNCHANGED <<base, calendarVars, trigVars, hubVars>>

\* A tool of either variant that holds one event, and two calls dispatched
\* together.
ArunInit ==
    /\ CalendarStart("UTC")
    /\ NoTrigCall
    /\ NoHubTool
    /\ \E tool \in { CalendarTool(None, "UTC"), CalendarTool(PyStr("events.db"), "UTC") } :
          base = _run(tool, ArunStored, uuid4(0), 0, 0).self
    /\ shared = base
    /\ \E q \in [Workers -> ArunQueries] :
          threads = [t \in Workers |->
                       [query |-> q[t], pc |-> "start", got |-> NoRead, resp |-> None]]

ArunNext ==
    \E t \in Workers :
        \/ ArunWhole(t)
        \/ ArunRead(t)
        \/ ArunWrite(t)

SpecArun == ArunInit /\ [][ArunNext]_vars

\* --------------------------------------------------------------- C11

AllDone == \A t \in Workers : threads[t].pc = "done"

\* The calls run one after the other, a first.
SeqFirst(a) == _run(base, threads[a].query, uuid4(a), 0, 0)

SeqSecond(a, b) ==
    _run(SeqFirst(a).self, threads[b].query, uuid4(b), 0, 0)

\* The responses and the final store are those of the order a, b.
SameAsOrder(a, b) ==
    /\ threads[a].resp = SeqFirst(a).resp
    /\ threads[b].resp = SeqSecond(a, b).resp
    /\ Events(shared) = Events(SeqSecond(a, b).self)

Serializable == AllDone => (SameAsOrder(1, 2) \/ SameAsOrder(2, 1))

\* The call of worker t, as a request.
ArunOp(t) == Doc(threads[t].query)["action"].v

ArunChanges(t) == Doc(threads[t].query)["event"].v

\* Two deletes of the same id do not both return ok.
NoDoubleDelete ==
    (/\ AllDone
     /\ ArunOp(1) = "delete"
     /\ ArunOp(2) = "delete"
     /\ Doc(threads[1].query)["id"] = Doc(threads[2].query)["id"])
       => ~(Status(threads[1].resp) = "ok" /\ Status(threads[2].resp) = "ok")

\* Two successful updates of different fields of the same event both show in
\* the stored event.
NoLostUpdate ==
    (/\ AllDone
     /\ ArunOp(1) = "update"
     /\ ArunOp(2) = "update"
     /\ Status(threads[1].resp) = "ok"
     /\ Status(threads[2].resp) = "ok"
     /\ DOMAIN ArunChanges(1) \cap DOMAIN ArunChanges(2) = {})
       => \A e \in Events(shared) :
             \A t \in Workers :
                \A f \in DOMAIN ArunChanges(t) : e[f] = ArunChanges(t)[f]

\* C11: each operation is a single atomic step against the backend: when
\* several calls are dispatched concurrently to worker threads through _arun,
\* the responses and the final store equal those of some sequential order of
\* the same calls; two concurrent deletes of the same existing id on the
\* SQLite variant never both return ok, and two concurrent updates of
\* different fields of the same event never lose one of the two changes.
C11_CallsAreAtomic ==
    /\ Serializable
    /\ NoDoubleDelete
    /\ NoLostUpdate

\* Two concurrent deletes of the stored event on the SQLite variant both
\* returned ok.
C11_BothDeletesOk ==
    /\ AllDone
    /\ shared._use_sqlite
    /\ ArunOp(1) = "delete"
    /\ ArunOp(2) = "delete"
    /\ Status(threads[1].resp) = "ok"
    /\ Status(threads[2].resp) = "ok"

\* ------------------------------------------------------ TrigonometryTool
\* langchain_community/tools/trigonometry.py.  A float is finite (n tenths
\* of the argument it was computed from, `via` naming the math calls applied
\* to it, "" for a number as given), an infinity (n its sign) or NaN.

PyFloat(kind, n, via) == [t |-> "float", v |-> [kind |-> kind, n |-> n, via |-> via]]

\* The largest int float() converts (sys.float_info.max), scaled down.
FloatMax == 100

\* float(val) of line 91.
float(x) ==
    IF x.t = "float"
    THEN [exc |-> "", msg |-> "", val |-> x]
    ELSE IF -FloatMax <= x.v /\ x.v <= FloatMax
         THEN [exc |-> "", msg |-> "", val |-> PyFloat("finite", 10 * x.v, "")]
         ELSE [exc |-> "OverflowError",
               msg |-> "int too large to convert to float", val |-> None]

_FUNC_MAP == {"sin", "cos", "tan", "asin", "acos", "atan"}

is_inverse(func) == func \in {"asin", "acos", "atan"}

\* The float a math call returns for a finite or infinite argument.
MathVal(x, fn) ==
    PyFloat("finite", x.v.n, IF x.v.via = "" THEN fn ELSE fn \o "." \o x.v.via)

\* math.radians(x), math.degrees(x): NaN and the infinities are kept.
MathScale(x, fn) == IF x.v.kind = "finite" THEN MathVal(x, fn) ELSE x

\* fn(input_for_math) of line 116: math.sin, cos, tan raise ValueError for an
\* infinity, math.asin and acos outside [-1, 1]; NaN gives NaN.
MathCall(fn, x) ==
    IF x.v.kind = "nan"
    THEN [exc |-> "", msg |-> "", val |-> x]
    ELSE IF \/ (fn \in {"sin", "cos", "tan"} /\ x.v.kind = "inf")
            \/ (fn \in {"asin", "acos"}
                /\ (x.v.kind = "inf" \/ x.v.n < -10 \/ x.v.n > 10))
         THEN [exc |-> "ValueError", msg |-> "math domain error", val |-> None]
         ELSE [exc |-> "", msg |-> "", val |-> MathVal(x, fn)]

\* The checks of lines 76-91 on the three fields of the parsed mapping.
TrigFields(func, val, unit) ==
    IF ~Truthy(func) \/ ~isinstance_str(func)
    THEN [exc |-> "ValueError",
          msg |-> "Missing or invalid 'function' (must be a string).", out |-> <<>>]
    ELSE IF val.t \notin {"int", "float"}
    THEN [exc |-> "ValueError",
          msg |-> "Missing or invalid 'value' (must be a number).", out |-> <<>>]
    ELSE IF ~isinstance_str(unit)
    THEN [exc |-> "ValueError",
          msg |-> "'unit' must be a string 'radians' or 'degrees' if provided.",
          out |-> <<>>]
    ELSE IF Lower(unit.v) \notin {"radians", "degrees"}
    THEN [exc |-> "ValueError",
          msg |-> "unit must be 'radians' or 'degrees'.", out |-> <<>>]
    ELSE IF float(val).exc # ""
    THEN [exc |-> float(val).exc, msg |-> float(val).msg, out |-> <<>>]
    ELSE [exc |-> "", msg |-> "",
          out |-> Field("function", PyStr(Lower(func.v)))
                  @@ Field("value", float(val).val)
                  @@ Field("unit", PyStr(Lower(unit.v)))]

\* parsed.get(...) of lines 76-84: what json.loads returned need not be a
\* mapping.
TrigParsed(parsed) ==
    IF ~isinstance_dict(parsed)
    THEN [exc |-> "AttributeError",
          msg |-> "'" \o parsed.t \o "' object has no attribute 'get'", out |-> <<>>]
    ELSE TrigFields(DictGet(parsed.v, "function", None),
                    DictGet(parsed.v, "value", None),
                    DictGet(parsed.v, "unit", PyStr("radians")))

Trig_normalize_input(query) ==
    IF isinstance_str(query)
    THEN IF json_loads(query).exc # ""
         THEN [exc |-> "ValueError",
               msg |-> "Invalid JSON input: " \o json_loads(query).msg, out |-> <<>>]
         ELSE TrigParsed(json_loads(query).val)
    ELSE IF isinstance_dict(query)
         THEN TrigParsed(query)
         ELSE [exc |-> "ValueError",
               msg |-> "Input must be a JSON string or a dict.", out |-> <<>>]

\* result_unit of lines 124-136.
ResultUnit(func, unit) ==
    IF is_inverse(func)
    THEN IF unit = "degrees" THEN PyStr("degrees") ELSE PyStr("radians")
    ELSE None

\* Lines 115-141, raw being the outcome of fn(input_for_math).
Computed(func, unit, raw) ==
    IF raw.exc # ""
    THEN [exc |-> raw.exc, msg |-> raw.msg, out |-> <<>>]
    ELSE [exc |-> "", msg |-> "",
          out |-> Field("result", IF is_inverse(func) /\ unit = "degrees"
                                  THEN MathScale(raw.val, "degrees")
                                  ELSE raw.val)
                  @@ Field("raw_result", raw.val)
                  @@ Field("unit", ResultUnit(func, unit))]

Trig_compute(func, value, unit) ==
    IF func \notin _FUNC_MAP
    THEN [exc |-> "ValueError",
          msg |-> "Function '" \o func \o "' not supported.", out |-> <<>>]
    ELSE Computed(func, unit,
                  MathCall(func, IF ~is_inverse(func) /\ unit = "degrees"
                                 THEN MathScale(value, "radians")
                                 ELSE value))

Trig_format_response(func, original_input, compute_out, error) ==
    json_dumps(PyDict(
        Field("function", PyStr(func))
        @@ Field("input", original_input)
        @@ Field("result", IF Truthy(error) THEN None
                           ELSE DictGet(compute_out, "result", None))
        @@ Field("unit", IF Truthy(error) THEN None
                         ELSE DictGet(compute_out, "unit", None))
        @@ Field("raw_result", IF Truthy(error) THEN None
                               ELSE DictGet(compute_out, "raw_result", None))
        @@ Field("error", error)))

\* input_val of lines 187 and 195.
TrigRawInput(query) ==
    IF isinstance_str(query) THEN PyDict(Field("raw_query", query)) ELSE query

\* The try block of lines 169-178: n is the outcome of _normalize_input, c
\* that of _compute on the normalized fields (<<>> when there are none).
TrigTry(n, c) ==
    IF n.exc # ""
    THEN [exc |-> n.exc, msg |-> n.msg, val |-> None]
    ELSE IF c.exc # ""
    THEN [exc |-> c.exc, msg |-> c.msg, val |-> None]
    ELSE Trig_format_response(n.out["function"].v, PyDict(n.out), c.out, None)

\* _compute on the fields of a normalized input.
TrigComputeOf(n) ==
    IF n.exc # ""
    THEN [exc |-> "", msg |-> "", out |-> <<>>]
    ELSE Trig_compute(n.out["function"].v, n.out["value"], n.out["unit"].v)

\* The handlers of lines 180-196 around the outcome of the try block.
TrigHandlers(query, n, body) ==
    IF body.exc = ""
    THEN body
    ELSE IF IsValueError(body.exc)
    THEN IF n.exc = ""
         THEN Trig_format_response(n.out["function"].v, PyDict(n.out), <<>>,
                                   PyStr(body.msg))
         ELSE Trig_format_response("unknown", TrigRawInput(query), <<>>,
                                   PyStr(body.msg))
    ELSE Trig_format_response("unknown", TrigRawInput(query), <<>>,
                              PyStr("Unexpected error: " \o body.msg))

\* TrigonometryTool._run: the text returned, or the exception that left it.
TrigReturned(fr) == IF fr.exc = "" THEN fr.val ELSE [t |-> "raised", v |-> fr.exc]

Trig_run(query) ==
    TrigReturned(TrigHandlers(query, Trig_normalize_input(query),
                              TrigTry(Trig_normalize_input(query),
                                      TrigComputeOf(Trig_normalize_input(query)))))

\* Requests: each of the three fields takes one of the values listed or is
\* left out (<<>>).  Decimal("1") stands for a value a dict can carry that is
\* neither an int nor a float and that json.dumps does not encode.
TrigRequests ==
    { PyDict(f @@ x @@ u) :
        f \in { Field("function", PyStr(n)) :
                  n \in _FUNC_MAP \cup {"foo", "SIN", "Asin", ""} }
              \cup { Field("function", PyInt(5)), <<>> },
        x \in { Field("value", n) :
                  n \in { PyInt(0), PyInt(2), PyInt(-2), PyInt(FloatMax + 1),
                          PyFloat("finite", 5, ""), PyFloat("inf", 1, ""),
                          PyFloat("inf", -1, ""), PyFloat("nan", 0, ""),
                          PyStr("1"), [t |-> "Decimal", v |-> ""] } }
              \cup { <<>> },
        u \in { Field("unit", n) :
                  n \in { PyStr("radians"), PyStr("degrees"), PyStr("Degrees"),
                          PyStr("grads"), PyInt(1) } }
              \cup { <<>> } }

\* Text and other payloads that hold no request.
TrigMalformed ==
    { PyStr("not-a-json"), PyStr(""), JsonText(PyList(<<>>)), JsonText(PyInt(5)),
      JsonText(None), JsonText(PyStr("sin")), None, PyInt(5), PyList(<<>>) }

\* _run with a dict.
TrigRunDict ==
    \E q \in TrigRequests :
        /\ trigQuery' = q
        /\ trigResp' = Trig_run(q)
        /\ UNCHANGED <<calendarVars, arunVars, hubVars>>

\* _run with the JSON text of a request.
TrigRunText ==
    \E q \in TrigRequests :
        /\ JsonSerializable(q)
        /\ trigQuery' = JsonText(q)
        /\ trigResp' = Trig_run(JsonText(q))
        /\ UNCHANGED <<calendarVars, arunVars, hubVars>>

\* _run with a payload that holds no request.
TrigRunMalformed ==
    \E q \in TrigMalformed :
        /\ trigQuery' = q
        /\ trigResp' = Trig_run(q)
        /\ UNCHANGED <<calendarVars, arunVars, hubVars>>

TrigInit ==
    /\ CalendarStart("UTC")
    /\ NoThreads
    /\ NoHubTool
    /\ NoTrigCall

TrigNext ==
    \/ TrigRunDict
    \/ TrigRunText
    \/ TrigRunMalformed

SpecTrig == TrigInit /\ [][TrigNext]_vars

\* --------------------------------------------------------------- C19

\* The response as a mapping.
TrigOut == trigResp.v.v

TrigFailed ==
    /\ trigResp.t = "json"
    /\ TrigOut["error"] # None
    /\ TrigOut["result"] = None
    /\ TrigOut["unit"] = None
    /\ TrigOut["raw_result"] = None

\* The mapping a query carries, <<>> when it carries none.
TrigDoc ==
    IF trigQuery.t = "dict" \/ (trigQuery.t = "json" /\ trigQuery.v.t = "dict")
    THEN Doc(trigQuery)
    ELSE <<>>

\* The function name requested, "" when there is none.
TrigName ==
    IF "function" \in DOMAIN TrigDoc /\ TrigDoc["function"].t = "str"
    THEN TrigDoc["function"].v
    ELSE ""

NamesFunction == "function" \in DOMAIN TrigDoc /\ TrigDoc["function"].t = "str"

\* The value requested is a number outside [-1, 1].
ValueOutsideUnit ==
    /\ "value" \in DOMAIN TrigDoc
    /\ \/ (TrigDoc["value"].t = "int" /\ (TrigDoc["value"].v < -1 \/ TrigDoc["value"].v > 1))
       \/ (TrigDoc["value"].t = "float"
           /\ \/ TrigDoc["value"].v.kind = "inf"
              \/ (TrigDoc["value"].v.kind = "finite"
                  /\ (TrigDoc["value"].v.n < -10 \/ TrigDoc["value"].v.n > 10)))

\* The value requested is a finite number a float holds.
ValueFinite ==
    /\ "value" \in DOMAIN TrigDoc
    /\ \/ (TrigDoc["value"].t = "int"
           /\ -FloatMax <= TrigDoc["value"].v /\ TrigDoc["value"].v <= FloatMax)
       \/ (TrigDoc["value"].t = "float" /\ TrigDoc["value"].v.kind = "finite")

NotJsonText == trigQuery.t = "str"

\* The unit a request asks for, in the letter case given; radians by default.
UnitAsked ==
    IF "unit" \in DOMAIN TrigDoc
    THEN IF TrigDoc["unit"].t = "str" THEN TrigDoc["unit"].v ELSE ""
    ELSE "radians"

\* A valid request naming the function fname and the unit uname.
ValidRequest(fname, uname) ==
    /\ NamesFunction
    /\ fname \in _FUNC_MAP
    /\ ValueFinite
    /\ (fname \in {"asin", "acos"} => ~ValueOutsideUnit)
    /\ uname \in {"radians", "degrees"}

\* What a valid request is answered with.
TrigAnswered(fname, uname) ==
    /\ trigResp.t = "json"
    /\ TrigOut["error"] = None
    /\ TrigOut["result"] # None
    /\ TrigOut["unit"] = IF is_inverse(fname) THEN PyStr(uname) ELSE None

\* The claim with fname the function name it compares with the six names.
TrigContract(fname, uname) ==
    trigResp # None =>
       /\ (NamesFunction /\ fname \notin _FUNC_MAP) => TrigFailed
       /\ (NamesFunction /\ fname \in {"asin", "acos"} /\ ValueOutsideUnit) => TrigFailed
       /\ NotJsonText => TrigFailed
       /\ ValidRequest(fname, uname) => TrigAnswered(fname, uname)

\* C19: TrigonometryTool._run reports failures as values: for a function
\* name outside {sin, cos, tan, asin, acos, atan}, for asin/acos with a value
\* outside [-1, 1], and for text that is not valid JSON, the response has a
\* non-null error and null result, unit and raw_result; for every valid
\* request error is null and result is non-null, with unit null for
\* sin/cos/tan and the requested unit for asin/acos/atan.  Names and units
\* are compared in lower case, as _normalize_input reads them.
C19_FailuresAsValues == TrigContract(Lower(TrigName), Lower(UnitAsked))

\* A dict request naming a function outside the six was not answered: the
\* exception json.dumps raised in the handler left _run.
C19_HandlerRaises ==
    /\ trigResp = [t |-> "raised", v |-> "TypeError"]
    /\ NamesFunction
    /\ TrigName = "foo"

\* ---------------------------------------------------- HuggingFaceHubTool
\* langchain_community/tools/huggingface.py.  The client (huggingface_hub's
\* HfApi) is an external collaborator: a search returns a list of items that
\* carry some of the attributes modelId, id, author and tags, or raises.

\* The fields of lines 8-9; the subclasses of lines 58-81 set task.
HuggingFaceHubTool(task, top_k_results) ==
    [task |-> task, top_k_results |-> top_k_results]

HubTools ==
    { HuggingFaceHubTool("models", 3), HuggingFaceHubTool("datasets", 3),
      HuggingFaceHubTool("", 3), HuggingFaceHubTool("spaces", 3),
      HuggingFaceHubTool("models", 1) }

\* sep.join(parts)
RECURSIVE join(_, _)
join(sep, parts) ==
    IF parts = <<>> THEN ""
    ELSE IF Len(parts) = 1 THEN parts[1]
    ELSE parts[1] \o sep \o join(sep, Tail(parts))

getattr(obj, name, default) == IF name \in DOMAIN obj THEN obj[name] ELSE default

\* The block of lines 40-43 for one result.
FormatResult(result) ==
    "ID: " \o getattr(result, "modelId", getattr(result, "id", "N/A"))
    \o "\n" \o "Author: " \o getattr(result, "author", "N/A")
    \o "\n" \o "Tags: " \o join(", ", getattr(result, "tags", <<>>))

\* The client method _run calls for every searchable task: list_models.
ClientMethodModelsOnly(task) ==
    IF task \in {"models", "datasets"} THEN "list_models" ELSE ""

\* The client method lines 24-33 choose by task, "" for none.
ClientMethod(task) ==
    IF task = "models" THEN "list_models"
    ELSE IF task = "datasets" THEN "list_datasets"
    ELSE ""

\* Lines 35-48 once the client was called.
Searched(self, query, client) ==
    IF client.raises
    THEN "An error occurred: " \o client.msg
    ELSE IF client.results = <<>>
    THEN "No " \o self.task \o " found on the Hugging Face Hub for '" \o query \o "'."
    ELSE join("\n\n---\n\n",
              [i \in DOMAIN client.results |-> FormatResult(client.results[i])])

\* HuggingFaceHubTool._run: the text returned and the calls the client got.
Hub_run(self, query, client) ==
    IF ClientMethod(self.task) = ""
    THEN [resp |-> PyStr("Invalid task specified for the Hugging Face Hub tool."),
          calls |-> <<>>]
    ELSE [resp |-> PyStr(Searched(self, query, client)),
          calls |-> << [method |-> ClientMethod(self.task), search |-> query,
                        top_k |-> self.top_k_results] >>]

\* Items a search returns.
HubItems ==
    { Field("modelId", "gpt2") @@ Field("author", "openai")
        @@ Field("tags", <<"text-generation">>),
      Field("id", "squad") @@ Field("author", "stanford")
        @@ Field("tags", <<"question-answering", "en">>),
      Field("id", "imdb") @@ Field("modelId", "imdb-model"),
      Field("author", "anon") @@ Field("tags", <<>>) }

\* _run with a client whose search returns a list.
HubSearch ==
    \E q \in {"bert", "test query"},
       results \in UNION { [1 .. n -> HubItems] : n \in 0 .. MaxResults } :
        /\ hubQuery' = PyStr(q)
        /\ hubClient' = [raises |-> FALSE, msg |-> "", results |-> results]
        /\ hubResp' = Hub_run(hubTool, q, hubClient').resp
        /\ hubCalls' = Hub_run(hubTool, q, hubClient').calls
        /\ UNCHANGED <<hubTool, calendarVars, arunVars, trigVars>>

\* _run with a client whose search raises.
HubClientFails ==
    \E q \in {"bert", "test query"},
       msg \in {"Connection error", "401 Client Error"} :
        /\ hubQuery' = PyStr(q)
        /\ hubClient' = [raises |-> TRUE, msg |-> msg, results |-> <<>>]
        /\ hubResp' = Hub_run(hubTool, q, hubClient').resp
        /\ hubCalls' = Hub_run(hubTool, q, hubClient').calls
        /\ UNCHANGED <<hubTool, calendarVars, arunVars, trigVars>>

HubInit ==
    /\ CalendarStart("UTC")
    /\ NoThreads
    /\ NoTrigCall
    /\ hubTool \in HubTools
    /\ hubQuery = None
    /\ hubClient = None
    /\ hubCalls = <<>>
    /\ hubResp = None

HubNext ==
    \/ HubSearch
    \/ HubClientFails

SpecHub == HubInit /\ [][HubNext]_vars

\* --------------------------------------------------------------- C20

\* The one call the client is to receive from a tool of this task.
OnlyCall(method) ==
    hubCalls = << [method |-> method, search |-> hubQuery.v,
                   top_k |-> hubTool.top_k_results] >>

\* The blocks one after the other, each but the first after a "---" line
\* between blank lines.
RECURSIVE Separated(_)
Separated(blocks) ==
    IF Len(blocks) = 1
    THEN blocks[1]
    ELSE Separated(SubSeq(blocks, 1, Len(blocks) - 1))
         \o "\n\n" \o "---" \o "\n\n" \o blocks[Len(blocks)]

\* The text is "An error occurred: " and what the client raised.
ErrorText(text) ==
    /\ Len(text) >= 19
    /\ SubSeq(text, 1, 19) = "An error occurred: "

Searchable == hubTool.task \in {"models", "datasets"}

\* C20: HuggingFaceHubTool._run calls exactly one client search operation
\* chosen by task ("models" calls only list_models, "datasets" only
\* list_datasets, each once with search=query and top_k=top_k_results; any
\* other task calls neither and returns the invalid-task message), returns
\* "No <task> found on the Hugging Face Hub for '<query>'." when the result
\* list is empty, otherwise one formatted block per result in result order
\* joined by a "---" separator, and returns an "An error occurred: ..." text
\* instead of raising when the client fails.
C20_HubSearch ==
    hubResp # None =>
       /\ hubResp.t = "str"
       /\ hubTool.task = "models" => OnlyCall("list_models")
       /\ hubTool.task = "datasets" => OnlyCall("list_datasets")
       /\ ~Searchable =>
             /\ hubCalls = <<>>
             /\ hubResp.v = "Invalid task specified for the Hugging Face Hub tool."
       /\ (Searchable /\ ~hubClient.raises /\ hubClient.results = <<>>) =>
             hubResp.v = "No " \o hubTool.task
                         \o " found on the Hugging Face Hub for '"
                         \o hubQuery.v \o "'."
       /\ (Searchable /\ ~hubClient.raises /\ hubClient.results # <<>>) =>
             hubResp.v = Separated([i \in 1 .. Len(hubClient.results) |->
                                      FormatResult(hubClient.results[i])])
       /\ (Searchable /\ hubClient.raises) => ErrorText(hubResp.v)

\* The dataset tool searched with the default top_k 3 and returned two blocks
\* in result order.
C20_Witness ==
    /\ hubResp # None
    /\ hubTool = HuggingFaceHubTool("datasets", 3)
    /\ hubCalls = << [method |-> "list_datasets", search |-> "bert", top_k |-> 3] >>
    /\ ~hubClient.raises
    /\ Len(hubClient.results) = 2
    /\ hubResp.v = "ID: squad\nAuthor: stanford\nTags: question-answering, en"
                   \o "\n\n---\n\n"
                   \o "ID: imdb-model\nAuthor: N/A\nTags: "

====
